---- MODULE Spec2Model ----
(***************************************************************************)
(* Ledger ingestion, lot matching and posting state of schwab-to-discord.  *)
(*                                                                         *)
(* The specifications share the variables below:                           *)
(*   SpecFill       the fill-level store of db/trades_repo.py              *)
(*                  (store_trade_fill, mark_posted) on the trades table;   *)
(*   SpecCostBasis  the per-order step of the poll loop with the two       *)
(*                  matching engines (app.domain.cost_basis, newest        *)
(*                  first by exact symbol; app.cost_basis, oldest first    *)
(*                  by underlying);                                        *)
(*   SpecPost       the announcement loop (bot.py / main.py /              *)
(*                  domain/trade_poster.py), SpecPostFair the same loop    *)
(*                  running for ever;                                      *)
(*   SpecLots, SpecCreateLot  the lot store under repeated reports and     *)
(*                  under direct calls of create_cost_basis_lot;           *)
(*   SpecRetry, SpecSend  one call of _retry_with_backoff, of post_embed;  *)
(*   SpecLoop, SpecIteration, SpecRun  the poll loop's error handling,     *)
(*                  its iterations and the run around it;                  *)
(*   SpecCalc       gain amount and classification;                        *)
(*   SpecCycle      one poll cycle's load pass and its transactions.       *)
(*                                                                         *)
(* Quantities are integers (models/data.py coerces them with _safe_int);   *)
(* prices and gains are exact rationals <<num, den>> where the code uses   *)
(* floats.  SQL NULL / Python None is the value NULL, the empty string    *)
(* of a trade id is EMPTY.                                                 *)
(***************************************************************************)
EXTENDS Integers, Sequences, FiniteSets, TLC

VARIABLES
    now,              \* the clock read by _now_iso() / datetime.now()
    trades,           \* fill-level table `trades` (rows in rowid order)
    ingested,         \* history: trade ids handed to store_trade_fill
    fills,            \* order-level stored fills, by order id
    trade_state,      \* posting records (table trade_state), by trade id
    lots,             \* table cost_basis_lots; lot_id = index
    lot_matches,      \* table lot_matches; match_id = index
    unmatched_sells,  \* table unmatched_sells, keyed by sell_order_id
    engine,           \* which matching engine the deployment imports
    poster,           \* which announcement loop the deployment runs
    webhook2,         \* whether a secondary webhook is configured
    queue,            \* the unposted ids the running announcement loop still has to handle
    delivered,        \* history: successful deliveries per <<trade id, webhook>>
    retry,            \* one run of _retry_with_backoff: its locals and what it did
    loop,             \* the poll loop: running flag, consecutive errors, cycles run
    cycle,            \* the loading half of a poll cycle: batch, position, durable tables
    posting,          \* one call of post_embed: its HTTP posts and sleeps
    last              \* history: the operation performed by the last step

vars == <<now, trades, ingested, fills, trade_state, lots, lot_matches,
          unmatched_sells, engine, poster, webhook2, queue, delivered, retry, loop,
          cycle, posting, last>>

\* sentinels outside the ranges of ids, times, quantities and prices
NULL == 0 - 1

EMPTY == 0 - 2

(* ------------------------------ bounds -------------------------------- *)
MaxClock == 1
MaxRows == 2
MaxFillOrders == 2
MaxOrders == 4
MaxQty == 2
MaxSellQty == 3
MaxPrice == 2
MaxPostOrders == 2
MaxLotOrders == 3
MaxDeliveries == 2
MaxRetryArg == 3
MaxCycles == 12
MaxGainNum == 101
MaxCalcQty == 3
MaxCalcPrice == 3
MaxCycleOrders == 2
MaxBatchLen == 2
MaxBatches == 2
MaxPosts == 5
MaxRetryAfter == 2
MaxRowid == 3

(* --------------------------- small helpers ----------------------------- *)
Min(a, b) == IF a <= b THEN a ELSE b

Abs(n) == IF n < 0 THEN 0 - n ELSE n

RECURSIVE Gcd(_, _)
Gcd(a, b) == IF b = 0 THEN a ELSE Gcd(b, a % b)

\* exact rationals <<n, d>>, d > 0, in lowest terms
Rat(n, d) ==
    LET s == IF d < 0 THEN 0 - 1 ELSE 1
        g == Gcd(Abs(n), Abs(d))
    IN  <<(s * n) \div g, (s * d) \div g>>

RInt(n) == <<n, 1>>
RAdd(x, y) == Rat(x[1] * y[2] + y[1] * x[2], x[2] * y[2])
RMul(x, y) == Rat(x[1] * y[1], x[2] * y[2])
RDiv(x, y) == Rat(x[1] * y[2], x[2] * y[1])

RECURSIVE SeqSum(_)
SeqSum(s) == IF s = <<>> THEN 0 ELSE Head(s) + SeqSum(Tail(s))

RECURSIVE RSeqSum(_)
RSeqSum(s) == IF s = <<>> THEN RInt(0) ELSE RAdd(Head(s), RSeqSum(Tail(s)))

\* the sequences over the row ids S that list each once
Listings(S) ==
    {s \in [1..Cardinality(S) -> S] : \A i, j \in DOMAIN s : i # j => s[i] # s[j]}

(* ===================== fill-level store (trades) ====================== *)

\* Python `x or ''`: None and every falsy value (0, 0.0) become ''
OrEmpty(x) == IF x = NULL \/ x = 0 THEN EMPTY ELSE x

make_trade_id(trade) ==
    <<"schwab-fill:", trade.account_number, trade.instrument_id, trade.order_id,
      OrEmpty(trade.leg_id), trade.execution_time, trade.fill_quantity,
      OrEmpty(trade.fill_price)>>

\* ux_trades_fill_dedupe: a UNIQUE index treats NULLs as distinct
DedupeKey(r) ==
    <<r.account_number, r.instrument_id, r.order_id, r.leg_id,
      r.execution_time, r.fill_quantity, r.fill_price>>

DedupeConflict(r, t) ==
    /\ r.leg_id # NULL /\ t.leg_id # NULL
    /\ r.fill_price # NULL /\ t.fill_price # NULL
    /\ DedupeKey(r) = DedupeKey(t)

\* INSERT OR IGNORE skips the row on a PRIMARY KEY or UNIQUE conflict
InsertIgnoredMutant(rows, trade) == FALSE

InsertIgnored(rows, trade) ==
    \E i \in DOMAIN rows :
        \/ rows[i].trade_id = make_trade_id(trade)
        \/ DedupeConflict(rows[i], trade)

TradeRow(trade, t) ==
    [trade_id |-> make_trade_id(trade),
     account_number |-> trade.account_number,
     instrument_id |-> trade.instrument_id,
     order_id |-> trade.order_id,
     leg_id |-> trade.leg_id,
     execution_time |-> trade.execution_time,
     fill_quantity |-> trade.fill_quantity,
     fill_price |-> trade.fill_price,
     status |-> trade.status,
     posted |-> 0,
     posted_at |-> NULL,
     ingested_at |-> t]

\* (a variant with INSERT OR REPLACE: a conflicting row is written anew)
store_trade_fill_replace(rows, trade, t) ==
    IF InsertIgnored(rows, trade)
    THEN [i \in DOMAIN rows |->
             IF rows[i].trade_id = make_trade_id(trade) THEN TradeRow(trade, t)
             ELSE rows[i]]
    ELSE Append(rows, TradeRow(trade, t))

store_trade_fill(rows, trade, t) ==
    IF InsertIgnored(rows, trade) THEN rows ELSE Append(rows, TradeRow(trade, t))

\* UPDATE ... SET posted = 1, posted_at = now WHERE trade_id = ?
mark_posted(rows, trade_id, t) ==
    [i \in DOMAIN rows |->
        IF rows[i].trade_id = trade_id
        THEN [rows[i] EXCEPT !.posted = 1, !.posted_at = t]
        ELSE rows[i]]

\* cursor.rowcount of the UPDATE of mark_posted
mark_posted_rowcount(rows, trade_id) ==
    Cardinality({i \in DOMAIN rows : rows[i].trade_id = trade_id})

\* mark_posted executes the UPDATE and returns: no rowcount check, no raise
mark_posted_raises(rows, trade_id) == FALSE

\* SELECT ... FROM trades WHERE posted = 0 ORDER BY execution_time ASC LIMIT ?
\* (every answer SQL may give: the listed rows by index, equal times in any order)
fetch_unposted_fills(rows, limit) ==
    LET S == {i \in DOMAIN rows : rows[i].posted = 0}
        sorted == {s \in Listings(S) :
                     \A i, j \in DOMAIN s :
                         i < j => rows[s[i]].execution_time <= rows[s[j]].execution_time}
    IN  {SubSeq(s, 1, Min(limit, Len(s))) : s \in sorted}

\* default of fetch_unposted_fills' limit
DefaultLimit == 200

\* the fills of the run: order o executed at time MaxFillOrders + 1 - o
\* (the later order executed first)
FillTrades ==
  {f \in
    [account_number : {"ACCT"},
     instrument_id : {11},
     order_id : 1..MaxFillOrders,
     leg_id : {NULL, 0, 1},
     execution_time : 1..MaxFillOrders,
     fill_quantity : {1},
     fill_price : {0, 1},
     status : {"WORKING", "FILLED"}] :
    f.execution_time = MaxFillOrders + 1 - f.order_id}

FillTradeIds == {make_trade_id(t) : t \in FillTrades}

(* ================= order-level store and posting records =============== *)

\* symbols are token sequences: <<"AAPL", "C150">> is the option "AAPL C150"
Symbols == {<<"AAPL", "C150">>, <<"AAPL", "C160">>}

Instructions == {"BUY_TO_OPEN", "SELL_TO_CLOSE"}

OrderIds == 1..MaxOrders

\* the brokerage's orders: odd ids are opening buys, even ids closing sells
\* (of the contract C150); order o was entered at time o and filled at the
\* price (o - 1) % (MaxPrice + 1)
InstructionOf(o) == IF o % 2 = 1 THEN "BUY_TO_OPEN" ELSE "SELL_TO_CLOSE"

EnteredTimeOf(o) == o

PriceOf(o) == (o - 1) % (MaxPrice + 1)

\* a BUY fills up to MaxQty contracts, a SELL up to MaxSellQty
MaxFillOf(o) == IF o % 2 = 1 THEN MaxQty ELSE MaxSellQty

\* a normalized order as load_trade returns it (the fields the ledger reads)
Trades ==
    {t \in [order_id : OrderIds,
            symbol : Symbols,
            instruction : Instructions,
            filled_quantity : 0..MaxSellQty,
            price : 0..MaxPrice,
            entered_time : OrderIds] :
        /\ t.instruction = InstructionOf(t.order_id)
        /\ t.entered_time = EnteredTimeOf(t.order_id)
        /\ t.filled_quantity <= MaxFillOf(t.order_id)
        /\ (t.order_id % 2 = 0 => t.symbol = <<"AAPL", "C150">>)}

\* the orders at the price the brokerage filled them at
PricedTrades == {t \in Trades : t.price = PriceOf(t.order_id)}

\* "BUY" in trade.instruction.upper() / "SELL" in trade.instruction.upper()
ContainsBUY(instruction) ==
    instruction \in {"BUY", "BUY_TO_OPEN", "BUY_TO_CLOSE", "BUY_TO_COVER"}

ContainsSELL(instruction) ==
    instruction \in {"SELL", "SELL_TO_OPEN", "SELL_TO_CLOSE", "SELL_SHORT"}

\* upsert_fill: insert-or-update by the order's identity; filled quantity is refreshed
store_trade(stored, trade) ==
    [o \in DOMAIN stored \cup {trade.order_id} |->
        IF o # trade.order_id THEN stored[o]
        ELSE IF o \in DOMAIN stored
             THEN [stored[o] EXCEPT !.filled_quantity = trade.filled_quantity]
             ELSE trade]

\* a PostingRecord exists for every stored fill, unposted by default
ensure_trade_state(rows, trade_id, t) ==
    IF trade_id \in DOMAIN rows
    THEN rows
    ELSE [id \in DOMAIN rows \cup {trade_id} |->
             IF id = trade_id
             THEN [trade_id |-> trade_id, posted |-> 0, posted_at |-> NULL,
                   updated_at |-> t]
             ELSE rows[id]]

(* ========================= cost basis tables ========================== *)

extract_underlying(symbol) == IF Len(symbol) > 1 THEN <<symbol[1]>> ELSE symbol

check_buy_already_recorded(lotrows, order_id) ==
    \E i \in DOMAIN lotrows : lotrows[i].order_id = order_id

\* INSERT OR IGNORE INTO cost_basis_lots (order_id is UNIQUE)
create_cost_basis_lot(lotrows, order_id, symbol, underlying, quantity, avg_cost, entered_time) ==
    IF \E i \in DOMAIN lotrows : lotrows[i].order_id = order_id
    THEN lotrows
    ELSE Append(lotrows,
                [order_id |-> order_id, symbol |-> symbol, underlying |-> underlying,
                 quantity |-> quantity, remaining_qty |-> quantity,
                 avg_cost |-> avg_cost, entered_time |-> entered_time])

\* return cursor.lastrowid: the lot_id of the row the INSERT added (lot_id
\* is AUTOINCREMENT, the n-th lot gets id n); when the INSERT was ignored no
\* row was added and lastrowid is the rowid of the last row this connection
\* inserted into any table, last_insert_rowid (0 when it inserted none)
create_cost_basis_lot_lastrowid(lotrows, order_id, last_insert_rowid) ==
    IF \E i \in DOMAIN lotrows : lotrows[i].order_id = order_id
    THEN last_insert_rowid
    ELSE Len(lotrows) + 1

\* (a variant that refreshes the lot of a known order from the payload)
process_buy_order_refresh(lotrows, order_id, symbol, filled_quantity, price, entered_time) ==
    IF check_buy_already_recorded(lotrows, order_id)
    THEN [i \in DOMAIN lotrows |->
             IF lotrows[i].order_id = order_id
             THEN [lotrows[i] EXCEPT !.quantity = filled_quantity, !.avg_cost = price]
             ELSE lotrows[i]]
    ELSE create_cost_basis_lot(lotrows, order_id, symbol, extract_underlying(symbol),
                               filled_quantity, price, entered_time)

process_buy_order(lotrows, order_id, symbol, filled_quantity, price, entered_time) ==
    IF check_buy_already_recorded(lotrows, order_id)
    THEN lotrows
    ELSE create_cost_basis_lot(lotrows, order_id, symbol, extract_underlying(symbol),
                               filled_quantity, price, entered_time)

get_open_lots_lifo_ascending(lotrows, symbol) ==
    LET S == {i \in DOMAIN lotrows :
                 lotrows[i].symbol = symbol /\ lotrows[i].remaining_qty > 0}
    IN  {s \in Listings(S) :
            \A i, j \in DOMAIN s :
                i < j => lotrows[s[i]].entered_time <= lotrows[s[j]].entered_time}

\* WHERE symbol = ? AND remaining_qty > 0 ORDER BY entered_time DESC
\* (every order SQL may return: rows of equal entered_time come in any order)
get_open_lots_lifo(lotrows, symbol) ==
    LET S == {i \in DOMAIN lotrows :
                 lotrows[i].symbol = symbol /\ lotrows[i].remaining_qty > 0}
    IN  {s \in Listings(S) :
            \A i, j \in DOMAIN s :
                i < j => lotrows[s[i]].entered_time >= lotrows[s[j]].entered_time}

\* open_lots(underlying, oldest first)
get_open_lots_fifo(lotrows, underlying) ==
    LET S == {i \in DOMAIN lotrows :
                 lotrows[i].underlying = underlying /\ lotrows[i].remaining_qty > 0}
    IN  {s \in Listings(S) :
            \A i, j \in DOMAIN s :
                i < j => lotrows[s[i]].entered_time <= lotrows[s[j]].entered_time}

reduce_lot_quantity(lotrows, lot_id, sold_qty) ==
    [lotrows EXCEPT ![lot_id].remaining_qty = @ - sold_qty]

record_lot_match(matchrows, sell_order_id, lot_id, quantity, cost_basis, sell_price, gain_pct, gain_amount) ==
    Append(matchrows,
           [sell_order_id |-> sell_order_id, lot_id |-> lot_id, quantity |-> quantity,
            cost_basis |-> cost_basis, sell_price |-> sell_price,
            gain_pct |-> gain_pct, gain_amount |-> gain_amount])

MatchesOf(matchrows, sell_order_id) ==
    SelectSeq(matchrows, LAMBDA m : m.sell_order_id = sell_order_id)

check_sell_already_matched(matchrows, sell_order_id) ==
    Len(MatchesOf(matchrows, sell_order_id)) > 0

check_sell_unmatched_never(unmatched, sell_order_id) == FALSE

check_sell_unmatched(unmatched, sell_order_id) ==
    \E u \in unmatched : u.sell_order_id = sell_order_id

\* INSERT OR IGNORE INTO unmatched_sells (sell_order_id is the PRIMARY KEY)
record_unmatched_sell(unmatched, sell_order_id, symbol, quantity, sell_price) ==
    IF \E u \in unmatched : u.sell_order_id = sell_order_id
    THEN unmatched
    ELSE unmatched \cup {[sell_order_id |-> sell_order_id, symbol |-> symbol,
                          quantity |-> quantity, sell_price |-> sell_price]}

MapSeq(s, F(_)) == [i \in DOMAIN s |-> F(s[i])]

\* SELECT SUM(quantity * gain_pct) / SUM(quantity) ... WHERE sell_order_id = ?
\* (NoResult when there is no row; SQL yields NULL on a zero divisor)
NoResult == <<0, 0>>

\* (a variant that averages the rows' gains without their quantities)
get_avg_gain_for_sell_unweighted(matchrows, sell_order_id) ==
    LET ms == MatchesOf(matchrows, sell_order_id)
    IN  IF Len(ms) = 0
        THEN NoResult
        ELSE RDiv(RSeqSum(MapSeq(ms, LAMBDA m : m.gain_pct)), RInt(Len(ms)))

get_avg_gain_for_sell(matchrows, sell_order_id) ==
    LET ms == MatchesOf(matchrows, sell_order_id)
        num == RSeqSum(MapSeq(ms, LAMBDA m : RMul(RInt(m.quantity), m.gain_pct)))
        den == SeqSum(MapSeq(ms, LAMBDA m : m.quantity))
    IN  IF Len(ms) = 0 \/ den = 0 THEN NoResult ELSE RDiv(num, RInt(den))

(* ========================== matching engine =========================== *)

\* qty_from_lot = min(remaining_to_sell, lot_remaining)
QtyFromLotWholeLot(remaining_to_sell, lot_remaining) == lot_remaining

QtyFromLotUnclamped(remaining_to_sell, lot_remaining) == remaining_to_sell

QtyFromLot(remaining_to_sell, lot_remaining) == Min(remaining_to_sell, lot_remaining)

\* gain_pct = ((sell_price - lot_cost) / lot_cost) * 100 if lot_cost > 0 else 0.0
GainPct(sell_price, lot_cost) ==
    IF lot_cost > 0
    THEN RMul(RDiv(RInt(sell_price - lot_cost), RInt(lot_cost)), RInt(100))
    ELSE RInt(0)

\* gain_amount = qty * sell_price * 100 - qty * lot_cost * 100
GainAmount(qty_from_lot, sell_price, lot_cost) ==
    qty_from_lot * sell_price * 100 - qty_from_lot * lot_cost * 100

\* total_weighted_gain += gain_pct * qty_from_lot
WeightedTermUnweighted(gain_pct, qty_from_lot) == gain_pct

WeightedTerm(gain_pct, qty_from_lot) == RMul(gain_pct, RInt(qty_from_lot))

LoopStart(lotrows, matchrows, filled_quantity) ==
    [lots |-> lotrows, matches |-> matchrows,
     remaining_to_sell |-> filled_quantity,
     total_gain_amount |-> 0, total_weighted_gain |-> RInt(0),
     total_qty_matched |-> 0, lots_matched |-> 0]

\* `for lot in open_lots:` of process_sell_order, from position i on;
\* fetched is the table as the query read it
RECURSIVE MatchLoop(_, _, _, _, _, _)
MatchLoop(open_lots, i, fetched, order_id, sell_price, st) ==
    IF i > Len(open_lots) \/ st.remaining_to_sell <= 0 THEN st
    ELSE
      LET lot_id == open_lots[i]
          lot_remaining == fetched[lot_id].remaining_qty
          lot_cost == fetched[lot_id].avg_cost
          qty_from_lot == QtyFromLot(st.remaining_to_sell, lot_remaining)
          gain_amount == GainAmount(qty_from_lot, sell_price, lot_cost)
          gain_pct == GainPct(sell_price, lot_cost)
      IN  MatchLoop(open_lots, i + 1, fetched, order_id, sell_price,
            [lots |-> reduce_lot_quantity(st.lots, lot_id, qty_from_lot),
             matches |-> record_lot_match(st.matches, order_id, lot_id, qty_from_lot,
                                          lot_cost, sell_price, gain_pct, gain_amount),
             remaining_to_sell |-> st.remaining_to_sell - qty_from_lot,
             total_gain_amount |-> st.total_gain_amount + gain_amount,
             total_weighted_gain |->
                 RAdd(st.total_weighted_gain, WeightedTerm(gain_pct, qty_from_lot)),
             total_qty_matched |-> st.total_qty_matched + qty_from_lot,
             lots_matched |-> st.lots_matched + 1])

\* what process_sell_order returns: a GainResult, or None
GainResult(avg_gain_pct, total_gain_amount, lots_matched) ==
    [some |-> TRUE, avg_gain_pct |-> avg_gain_pct,
     total_gain_amount |-> total_gain_amount, lots_matched |-> lots_matched]

None == [some |-> FALSE]

LoopResult(st) ==
    IF st.total_qty_matched > 0
    THEN GainResult(RDiv(st.total_weighted_gain, RInt(st.total_qty_matched)),
                    st.total_gain_amount, st.lots_matched)
    ELSE None

StoredResult(matchrows, order_id) ==
    LET avg_gain == get_avg_gain_for_sell(matchrows, order_id)
    IN  IF avg_gain # NoResult THEN GainResult(avg_gain, 0, 0) ELSE None

AlreadyMatchedMutant(matchrows, sell_order_id) == FALSE

AlreadyMatched(matchrows, sell_order_id) ==
    check_sell_already_matched(matchrows, sell_order_id)

\* app.domain.cost_basis.process_sell_order; open_lots is the query's answer
\* Result: [lots, matches, unmatched, result]
DomainSell(lotrows, matchrows, unmatched, open_lots, order_id, symbol, filled_quantity, sell_price) ==
    IF AlreadyMatched(matchrows, order_id)
    THEN [lots |-> lotrows, matches |-> matchrows, unmatched |-> unmatched,
          result |-> StoredResult(matchrows, order_id)]
    ELSE IF check_sell_unmatched(unmatched, order_id)
    THEN [lots |-> lotrows, matches |-> matchrows, unmatched |-> unmatched,
          result |-> None]
    ELSE IF open_lots = <<>>
    THEN [lots |-> lotrows, matches |-> matchrows,
          unmatched |-> record_unmatched_sell(unmatched, order_id, symbol,
                                              filled_quantity, sell_price),
          result |-> None]
    ELSE LET st == MatchLoop(open_lots, 1, lotrows, order_id, sell_price,
                             LoopStart(lotrows, matchrows, filled_quantity))
         IN  [lots |-> st.lots, matches |-> st.matches, unmatched |-> unmatched,
              result |-> LoopResult(st)]

\* app.cost_basis.process_sell_order (imported by bot.py and main.py)
LegacySell(lotrows, matchrows, unmatched, open_lots, order_id, symbol, filled_quantity, sell_price) ==
    IF AlreadyMatched(matchrows, order_id)
    THEN [lots |-> lotrows, matches |-> matchrows, unmatched |-> unmatched,
          result |-> StoredResult(matchrows, order_id)]
    ELSE IF open_lots = <<>>
    THEN [lots |-> lotrows, matches |-> matchrows, unmatched |-> unmatched,
          result |-> None]
    ELSE LET st == MatchLoop(open_lots, 1, lotrows, order_id, sell_price,
                             LoopStart(lotrows, matchrows, filled_quantity))
         IN  [lots |-> st.lots, matches |-> st.matches, unmatched |-> unmatched,
              result |-> LoopResult(st)]

\* rebuild_cost_basis.py: gain_amount = (sell_price - lot_cost) * qty_from_lot * 100
RebuildGainAmount(qty_from_lot, sell_price, lot_cost) ==
    (sell_price - lot_cost) * qty_from_lot * 100

\* `for lot in lots:` of rebuild_cost_basis.process_sell, from position i on
RECURSIVE RebuildLoop(_, _, _, _, _, _)
RebuildLoop(open_lots, i, fetched, order_id, sell_price, st) ==
    IF i > Len(open_lots) \/ st.remaining_to_sell <= 0 THEN st
    ELSE
      LET lot_id == open_lots[i]
          lot_remaining == fetched[lot_id].remaining_qty
          lot_cost == fetched[lot_id].avg_cost
          qty_from_lot == Min(st.remaining_to_sell, lot_remaining)
          gain_pct == GainPct(sell_price, lot_cost)
          gain_amount == RebuildGainAmount(qty_from_lot, sell_price, lot_cost)
      IN  RebuildLoop(open_lots, i + 1, fetched, order_id, sell_price,
            [st EXCEPT
               !.matches = record_lot_match(@, order_id, lot_id, qty_from_lot,
                                            lot_cost, sell_price, gain_pct, gain_amount),
               !.lots = reduce_lot_quantity(@, lot_id, qty_from_lot),
               !.total_weighted_gain = RAdd(@, RMul(gain_pct, RInt(qty_from_lot))),
               !.total_qty_matched = @ + qty_from_lot,
               !.remaining_to_sell = @ - qty_from_lot])

\* rebuild_cost_basis.process_sell; open_lots is the answer of its query
\* (the SQL of get_open_lots_lifo).  It returns the average gain or None.
RebuildSell(lotrows, matchrows, unmatched, open_lots, order_id, symbol, quantity, sell_price) ==
    IF check_sell_already_matched(matchrows, order_id)
    THEN [lots |-> lotrows, matches |-> matchrows, unmatched |-> unmatched,
          result |-> NoResult]
    ELSE IF check_sell_unmatched(unmatched, order_id)
    THEN [lots |-> lotrows, matches |-> matchrows, unmatched |-> unmatched,
          result |-> NoResult]
    ELSE IF open_lots = <<>>
    THEN [lots |-> lotrows, matches |-> matchrows,
          unmatched |-> record_unmatched_sell(unmatched, order_id, symbol,
                                              quantity, sell_price),
          result |-> NoResult]
    ELSE LET st == RebuildLoop(open_lots, 1, lotrows, order_id, sell_price,
                               LoopStart(lotrows, matchrows, quantity))
         IN  [lots |-> st.lots, matches |-> st.matches, unmatched |-> unmatched,
              result |-> IF st.total_qty_matched > 0
                         THEN RDiv(st.total_weighted_gain, RInt(st.total_qty_matched))
                         ELSE NoResult]

\* the lots the engine's query answers with
OpenLotsFor(eng, lotrows, symbol) ==
    IF eng = "domain"
    THEN get_open_lots_lifo(lotrows, symbol)
    ELSE get_open_lots_fifo(lotrows, extract_underlying(symbol))

process_sell_order(eng, lotrows, matchrows, unmatched, open_lots, order_id, symbol, filled_quantity, sell_price) ==
    IF eng = "domain"
    THEN DomainSell(lotrows, matchrows, unmatched, open_lots, order_id, symbol,
                    filled_quantity, sell_price)
    ELSE LegacySell(lotrows, matchrows, unmatched, open_lots, order_id, symbol,
                    filled_quantity, sell_price)

(* ------------------------------ Init ---------------------------------- *)
NoOp == [op |-> "init"]

\* no call of _retry_with_backoff is under way / no poll loop is running
NoRetry == [pc |-> "none"]

NoLoop == [pc |-> "none"]

NoCycle == [pc |-> "none"]

NoPosting == [pc |-> "none"]

InitCommon ==
    /\ now = 0
    /\ trades = <<>>
    /\ ingested = {}
    /\ fills = <<>>
    /\ trade_state = <<>>
    /\ lots = <<>>
    /\ lot_matches = <<>>
    /\ unmatched_sells = {}
    /\ queue = <<>>
    /\ delivered = <<>>
    /\ last = NoOp

InitFill ==
    /\ InitCommon
    /\ cycle = NoCycle
    /\ posting = NoPosting
    /\ retry = NoRetry
    /\ loop = NoLoop
    /\ engine = "domain"
    /\ poster = "bot"
    /\ webhook2 = FALSE

(* ------------------------- SpecFill actions --------------------------- *)
Tick ==
    /\ now < MaxClock
    /\ now' = now + 1
    /\ last' = [op |-> "tick"]
    /\ UNCHANGED <<posting, cycle, trades, ingested, fills, trade_state, lots, lot_matches,
                   unmatched_sells, engine, poster, webhook2, queue, delivered, retry, loop>>

StoreTradeFill ==
    \E trade \in FillTrades :
        /\ \/ make_trade_id(trade) \in ingested
           \/ Cardinality(ingested) < MaxRows
        /\ trades' = store_trade_fill(trades, trade, now)
        /\ ingested' = ingested \cup {make_trade_id(trade)}
        /\ last' = [op |-> "store_trade_fill",
                    trade_id |-> make_trade_id(trade), status |-> trade.status,
                    inserted |-> ~InsertIgnored(trades, trade)]
        /\ UNCHANGED <<posting, cycle, now, fills, trade_state, lots, lot_matches, unmatched_sells,
                       engine, poster, webhook2, queue, delivered, retry, loop>>

MarkPosted ==
    \E id \in FillTradeIds :
        /\ trades' = mark_posted(trades, id, now)
        /\ last' = [op |-> "mark_posted",
                    affected |-> mark_posted_rowcount(trades, id),
                    raised |-> mark_posted_raises(trades, id)]
        /\ UNCHANGED <<posting, cycle, now, ingested, fills, trade_state, lots, lot_matches,
                       unmatched_sells, engine, poster, webhook2, queue, delivered, retry, loop>>

NextFill == Tick \/ StoreTradeFill \/ MarkPosted

SpecFill == InitFill /\ [][NextFill]_vars

(* ----------------------- SpecCostBasis actions ------------------------ *)
InitCostBasis ==
    /\ InitCommon
    /\ cycle = NoCycle
    /\ posting = NoPosting
    /\ retry = NoRetry
    /\ loop = NoLoop
    /\ engine \in {"domain", "legacy"}
    /\ poster = "bot"
    /\ webhook2 = FALSE

\* the brokerage reports an order with the same instrument, side and entry time
\* every time, and its filled quantity never shrinks
SameOrder(trade) ==
    trade.order_id \in DOMAIN fills =>
        /\ trade.symbol = fills[trade.order_id].symbol
        /\ trade.instruction = fills[trade.order_id].instruction
        /\ trade.entered_time = fills[trade.order_id].entered_time
        /\ trade.filled_quantity >= fills[trade.order_id].filled_quantity

\* one pass of the `for order in raw_orders` body for a BUY order
LoadBuy(trade) ==
        /\ SameOrder(trade)
        /\ ContainsBUY(trade.instruction)
        /\ fills' = store_trade(fills, trade)
        /\ trade_state' = ensure_trade_state(trade_state, trade.order_id, now)
        /\ lots' = process_buy_order(lots, trade.order_id, trade.symbol,
                                     trade.filled_quantity, trade.price, trade.entered_time)
        /\ last' = [op |-> "buy", order_id |-> trade.order_id,
                    price |-> trade.price,
                    created |-> ~check_buy_already_recorded(lots, trade.order_id)]
        /\ UNCHANGED <<posting, cycle, now, trades, ingested, lot_matches, unmatched_sells, engine,
                       poster, webhook2, queue, delivered, retry, loop>>

\* one pass of the `for order in raw_orders` body for a SELL order
LoadSell(trade) ==
        /\ SameOrder(trade)
        /\ ~ContainsBUY(trade.instruction)
        /\ ContainsSELL(trade.instruction)
        /\ fills' = store_trade(fills, trade)
        /\ trade_state' = ensure_trade_state(trade_state, trade.order_id, now)
        /\ \E open_lots \in OpenLotsFor(engine, lots, trade.symbol) :
              LET r == process_sell_order(engine, lots, lot_matches, unmatched_sells,
                                          open_lots, trade.order_id, trade.symbol,
                                          trade.filled_quantity, trade.price)
              IN  /\ lots' = r.lots
                  /\ lot_matches' = r.matches
                  /\ unmatched_sells' = r.unmatched
                  /\ last' = [op |-> "sell", order_id |-> trade.order_id,
                              open_lots |-> open_lots, result |-> r.result]
        /\ UNCHANGED <<posting, cycle, now, trades, ingested, engine, poster, webhook2, queue, delivered, retry, loop>>

LoadBuyOrder == \E trade \in PricedTrades : LoadBuy(trade)

LoadSellOrder == \E trade \in PricedTrades : LoadSell(trade)

NextCostBasis == LoadBuyOrder \/ LoadSellOrder

SpecCostBasis == InitCostBasis /\ [][NextCostBasis]_vars

(* ------------------------- SpecLots actions --------------------------- *)
\* the same step where a later report of a known BUY order may carry any price
LotTrades == {t \in Trades : t.order_id <= MaxLotOrders}

ReportBuyOrder ==
    \E trade \in LotTrades :
        /\ trade.order_id \in DOMAIN fills \/ trade.price = PriceOf(trade.order_id)
        /\ LoadBuy(trade)

ReportSellOrder == \E trade \in LotTrades \cap PricedTrades : LoadSell(trade)

NextLots == ReportBuyOrder \/ ReportSellOrder

SpecLots == InitCostBasis /\ [][NextLots]_vars

(* ------------------------ SpecCreateLot actions ----------------------- *)
\* create_cost_basis_lot called directly, on a connection whose last insert
\* (a trade, a trade state, a match or a lot) got the rowid last_insert_rowid
CreateLot ==
    \E trade \in LotTrades, last_insert_rowid \in 0..MaxRowid :
        /\ ContainsBUY(trade.instruction)
        /\ lots' = create_cost_basis_lot(lots, trade.order_id, trade.symbol,
                                         extract_underlying(trade.symbol),
                                         trade.filled_quantity, trade.price,
                                         trade.entered_time)
        /\ last' = [op |-> "create_lot", order_id |-> trade.order_id,
                    existed |-> check_buy_already_recorded(lots, trade.order_id),
                    lot_id |-> create_cost_basis_lot_lastrowid(lots, trade.order_id,
                                                               last_insert_rowid)]
        /\ UNCHANGED <<posting, cycle, now, trades, ingested, fills, trade_state,
                       lot_matches, unmatched_sells, engine, poster, webhook2,
                       queue, delivered, retry, loop>>

NextCreateLot == CreateLot

SpecCreateLot == InitCostBasis /\ [][NextCreateLot]_vars

(* ------------------------- announcement loop -------------------------- *)

\* (a variant without the ORDER BY: the unposted ids in any order)
get_unposted_trade_ids_unordered(rows) ==
    Listings({id \in DOMAIN rows : rows[id].posted = 0})

\* SELECT trade_id FROM trade_state WHERE posted = 0 ORDER BY updated_at ASC LIMIT 1
get_unposted_trade_ids_limit(rows) ==
    LET S == {id \in DOMAIN rows : rows[id].posted = 0}
    IN  {SubSeq(s, 1, Min(1, Len(s))) : s \in
            {s \in Listings(S) :
                \A i, j \in DOMAIN s : i < j => rows[s[i]].updated_at <= rows[s[j]].updated_at}}

\* SELECT trade_id FROM trade_state WHERE posted = 0 ORDER BY updated_at ASC
get_unposted_trade_ids(rows) ==
    LET S == {id \in DOMAIN rows : rows[id].posted = 0}
    IN  {s \in Listings(S) :
            \A i, j \in DOMAIN s : i < j => rows[s[i]].updated_at <= rows[s[j]].updated_at}

\* post_embed returns on a 2xx answer and raises on every other outcome
PostOutcomes == {"ok", "error"}

\* one more message of trade_id has reached the channel behind `webhook`
Deliver(d, trade_id, webhook) ==
    [k \in DOMAIN d \cup {<<trade_id, webhook>>} |->
        IF k = <<trade_id, webhook>>
        THEN (IF k \in DOMAIN d THEN d[k] ELSE 0) + 1
        ELSE d[k]]

\* (a variant that marks the fill whatever the sends did)
_send_unposted_trades_mark_always(rows, d, trade_id, secondary, r1, r2, t) ==
    [state |-> mark_posted(rows, trade_id, t),
     delivered |-> IF r1 = "error" THEN d
                   ELSE IF secondary /\ r2 = "ok"
                        THEN Deliver(Deliver(d, trade_id, 1), trade_id, 2)
                        ELSE Deliver(d, trade_id, 1)]

\* body of `for trade_id in trade_ids` in bot.py / main.py: any exception
\* leaves the loop body before mark_posted
_send_unposted_trades(rows, d, trade_id, secondary, r1, r2, t) ==
    IF r1 = "error"
    THEN [state |-> rows, delivered |-> d]
    ELSE IF secondary /\ r2 = "error"
         THEN [state |-> rows, delivered |-> Deliver(d, trade_id, 1)]
         ELSE [state |-> mark_posted(rows, trade_id, t),
               delivered |-> IF secondary
                             THEN Deliver(Deliver(d, trade_id, 1), trade_id, 2)
                             ELSE Deliver(d, trade_id, 1)]

\* TradePoster._post_trade with _send_to_webhooks: success is the primary's
\* outcome, a failure of the secondary is logged and dropped
_post_trade(rows, d, trade_id, secondary, r1, r2, t) ==
    LET d1 == IF r1 = "ok" THEN Deliver(d, trade_id, 1) ELSE d
        d2 == IF secondary /\ r2 = "ok" THEN Deliver(d1, trade_id, 2) ELSE d1
    IN  [state |-> IF r1 = "ok" THEN mark_posted(rows, trade_id, t) ELSE rows,
         delivered |-> d2]

(* -------------------------- SpecPost actions -------------------------- *)
\* bot.py and main.py import app.cost_basis, TradeProcessor/TradePoster
\* import app.domain.cost_basis
InitPost ==
    /\ InitCommon
    /\ cycle = NoCycle
    /\ posting = NoPosting
    /\ retry = NoRetry
    /\ loop = NoLoop
    /\ poster \in {"bot", "poster"}
    /\ engine = IF poster = "bot" THEN "legacy" ELSE "domain"
    /\ webhook2 \in BOOLEAN

\* the loading half of a poll cycle, before the unposted ids are read
PostTrades ==
    {t \in Trades :
        /\ t.order_id <= MaxPostOrders
        /\ t.symbol = <<"AAPL", "C150">>
        /\ t.filled_quantity = 1
        /\ t.price = PriceOf(t.order_id)}

PollBuyOrder ==
    /\ queue = <<>>
    /\ \E trade \in PostTrades : LoadBuy(trade)

PollSellOrder ==
    /\ queue = <<>>
    /\ \E trade \in PostTrades : LoadSell(trade)

\* unposted_ids = get_unposted_trade_ids(conn)
GetUnposted ==
    /\ queue = <<>>
    /\ \A k \in DOMAIN delivered : delivered[k] < MaxDeliveries
    /\ \E ids \in get_unposted_trade_ids(trade_state) :
           /\ ids # <<>>
           /\ queue' = ids
    /\ last' = [op |-> "get_unposted"]
    /\ UNCHANGED <<posting, cycle, now, trades, ingested, fills, trade_state, lots, lot_matches,
                   unmatched_sells, engine, poster, webhook2, delivered, retry, loop>>

\* one pass of the loop over the unposted ids
PostTrade ==
    /\ queue # <<>>
    /\ \E r1 \in PostOutcomes, r2 \in PostOutcomes :
           LET trade_id == Head(queue)
               r == IF poster = "bot"
                    THEN _send_unposted_trades(trade_state, delivered, trade_id,
                                               webhook2, r1, r2, now)
                    ELSE _post_trade(trade_state, delivered, trade_id,
                                     webhook2, r1, r2, now)
           IN  /\ trade_state' = r.state
               /\ delivered' = r.delivered
               /\ last' = [op |-> "post", trade_id |-> trade_id,
                           marked |-> r.state[trade_id].posted = 1]
    /\ queue' = Tail(queue)
    /\ UNCHANGED <<posting, cycle, now, trades, ingested, fills, lots, lot_matches, unmatched_sells,
                   engine, poster, webhook2, retry, loop>>

NextPost == Tick \/ PollBuyOrder \/ PollSellOrder \/ GetUnposted \/ PostTrade

SpecPost == InitPost /\ [][NextPost]_vars

(* ------------------------ SpecPostFair actions ------------------------ *)
\* The same loop running for ever: deliveries are counted up to
\* MaxDeliveries and no further, so that no step is refused for the count.
Counted(d) == [k \in DOMAIN d |-> Min(d[k], MaxDeliveries)]

\* unposted_ids = get_unposted_trade_ids(conn)
GetUnpostedFair ==
    /\ queue = <<>>
    /\ \E ids \in get_unposted_trade_ids(trade_state) :
           /\ ids # <<>>
           /\ queue' = ids
    /\ last' = [op |-> "get_unposted", unposted |-> {id \in DOMAIN trade_state :
                                                         trade_state[id].posted = 0}]
    /\ UNCHANGED <<posting, cycle, now, trades, ingested, fills, trade_state, lots, lot_matches,
                   unmatched_sells, engine, poster, webhook2, delivered, retry, loop>>

\* one pass of the loop over the unposted ids, for the fill trade_id with
\* the sends ending in r1 and r2
PostTradeOf(trade_id, r1, r2) ==
    /\ queue # <<>>
    /\ trade_id = Head(queue)
    /\ LET r == IF poster = "bot"
                THEN _send_unposted_trades(trade_state, delivered, trade_id,
                                           webhook2, r1, r2, now)
                ELSE _post_trade(trade_state, delivered, trade_id,
                                 webhook2, r1, r2, now)
       IN  /\ trade_state' = r.state
           /\ delivered' = Counted(r.delivered)
           /\ last' = [op |-> "post", trade_id |-> trade_id,
                       marked |-> r.state[trade_id].posted = 1,
                       rest |-> Tail(queue)]
    /\ queue' = Tail(queue)
    /\ UNCHANGED <<posting, cycle, now, trades, ingested, fills, lots, lot_matches, unmatched_sells,
                   engine, poster, webhook2, retry, loop>>

PostTradeFair ==
    \E trade_id \in 1..MaxPostOrders, r1 \in PostOutcomes, r2 \in PostOutcomes :
        PostTradeOf(trade_id, r1, r2)

\* the pass for trade_id in which every send succeeds
PostTradeOk(trade_id) == PostTradeOf(trade_id, "ok", "ok")

NextPostFair ==
    Tick \/ PollBuyOrder \/ PollSellOrder \/ GetUnpostedFair \/ PostTradeFair

\* the poll loop keeps running (it reads the unposted ids again, it goes on
\* through the ids it read), and a fill whose pass comes round again and
\* again has its sends succeed in one of them
FairPosting ==
    /\ WF_vars(GetUnpostedFair)
    /\ WF_vars(PostTradeFair)
    /\ \A trade_id \in 1..MaxPostOrders : SF_vars(PostTradeOk(trade_id))

SpecPostFair == InitPost /\ [][NextPostFair]_vars /\ FairPosting

(* ------------------------- retry with backoff ------------------------- *)
\* Defaults.MAX_RETRIES, Defaults.RETRY_DELAY_BASE
MAX_RETRIES == 3

RETRY_DELAY_BASE == 2

\* what one invocation of func() can do: return, or raise one of
\* requests' ConnectionError / Timeout, an HTTPError from
\* resp.raise_for_status() (401, 400, 5xx), or an exception that is not one
\* of requests'
FuncOutcomes == {"ok", "ConnectionError", "Timeout", "HTTPError", "Exception"}

\* except (ConnectionError, Timeout)
NetworkError(o) == o \in {"ConnectionError", "Timeout"}

\* except RequestException: the base class of ConnectionError, Timeout and
\* HTTPError
RequestException(o) == o \in {"ConnectionError", "Timeout", "HTTPError"}

CaughtHTTPErrorOnly(o) == o = "HTTPError"

\* the two except clauses of the loop body
Caught(o) == NetworkError(o) \/ RequestException(o)

AttemptsOneMore(max_retries) == max_retries + 2

\* for attempt in range(max_retries + 1)
Attempts(max_retries) == max_retries + 1

\* (a variant that grows linearly)
DelayLinear(base_delay, attempt) == base_delay * (attempt + 1)

\* delay = base_delay * (2 ** attempt)
Delay(base_delay, attempt) == base_delay * 2^attempt

\* raise SchwabApiError(f"API call failed after {max_retries + 1} attempts: {last_exception}")
SchwabApiError(max_retries, last_exception) ==
    [type |-> "SchwabApiError", attempts |-> max_retries + 1, cause |-> last_exception]

\* an exception that no clause catches leaves the function as it is
Propagated(o) == [type |-> o, attempts |-> 0, cause |-> "None"]

NoError == [type |-> "None", attempts |-> 0, cause |-> "None"]

\* _retry_with_backoff(func, max_retries, base_delay) about to enter its loop
StartRetry(max_retries, base_delay) ==
    [pc |-> "loop", max_retries |-> max_retries, base_delay |-> base_delay,
     attempt |-> 0, calls |-> 0, failures |-> 0, outcomes |-> <<>>,
     slept |-> <<>>, last_exception |-> "None", result |-> NULL, error |-> NoError]

\* one pass of the for loop, func() ending in outcome o; the value returned
\* by the n-th invocation of func is written n; the raise after the loop
\* belongs to the pass that ends the loop
_retry_with_backoff(r, o) ==
    LET called == [r EXCEPT !.calls = @ + 1, !.outcomes = Append(@, o)]
        failed == [called EXCEPT !.failures = @ + 1, !.last_exception = o]
        waited == IF r.attempt < r.max_retries
                  THEN [failed EXCEPT !.slept = Append(@, Delay(r.base_delay, r.attempt))]
                  ELSE failed
    IN  IF o = "ok"
        THEN [called EXCEPT !.pc = "returned", !.result = called.calls]
        ELSE IF Caught(o)
             THEN IF r.attempt + 1 < Attempts(r.max_retries)
                  THEN [waited EXCEPT !.attempt = @ + 1]
                  ELSE [waited EXCEPT !.pc = "raised",
                                      !.error = SchwabApiError(r.max_retries,
                                                               waited.last_exception)]
             ELSE [called EXCEPT !.pc = "propagated", !.error = Propagated(o)]

(* ------------------------- SpecRetry actions -------------------------- *)
InitRetry ==
    /\ InitCommon
    /\ cycle = NoCycle
    /\ posting = NoPosting
    /\ engine = "domain"
    /\ poster = "bot"
    /\ webhook2 = FALSE
    /\ loop = NoLoop
    /\ \E max_retries \in 0..MaxRetryArg, base_delay \in 1..RETRY_DELAY_BASE :
           retry = StartRetry(max_retries, base_delay)

\* the wrapped call is invoked once more
RetryAttempt ==
    /\ retry.pc = "loop"
    /\ \E o \in FuncOutcomes : retry' = _retry_with_backoff(retry, o)
    /\ UNCHANGED <<posting, cycle, now, trades, ingested, fills, trade_state, lots, lot_matches,
                   unmatched_sells, engine, poster, webhook2, queue, delivered,
                   last, loop>>

NextRetry == RetryAttempt

SpecRetry == InitRetry /\ [][NextRetry]_vars

(* ------------------------------ poll loop ----------------------------- *)
\* SchwabBot.MAX_CONSECUTIVE_ERRORS, BASE_RETRY_DELAY, MAX_RETRY_DELAY;
\* main_loop's max_consecutive_errors is the same 10, its base delay is
\* RETRY_DELAY_BASE
MAX_CONSECUTIVE_ERRORS == 10

BASE_RETRY_DELAY == 5

MAX_RETRY_DELAY == 300

DB_RETRY_DELAY == 60

\* how one pass of the loop body ends: normally, or with an exception of
\* the class named
CycleOutcomes ==
    {"ok", "network", "request", "database", "service", "interrupt", "unexpected"}

\* SchwabBot.__init__ and run (bot.py), main_loop's first lines (main.py)
StartLoop(entry) ==
    [pc |-> "loop", entry |-> entry, running |-> TRUE, shutdown |-> FALSE,
     consecutive_errors |-> 0, delay |-> 0, cycles |-> 0, failed_in_a_row |-> 0,
     init |-> "ok", exit_code |-> NULL]

\* (a variant whose delay is not capped)
_handle_error_uncapped(l, max_delay) ==
    [l EXCEPT !.consecutive_errors = @ + 1,
              !.delay = BASE_RETRY_DELAY * 2^(l.consecutive_errors + 1)]

\* SchwabBot._handle_error
_handle_error(l, max_delay) ==
    [l EXCEPT !.consecutive_errors = @ + 1,
              !.delay = Min(BASE_RETRY_DELAY * 2^(l.consecutive_errors + 1), max_delay)]

\* the except clauses of main_loop
MainHandleError(l, o) ==
    [l EXCEPT !.consecutive_errors = @ + 1,
              !.delay = IF o = "database"
                        THEN Min(RETRY_DELAY_BASE * (l.consecutive_errors + 1),
                                 DB_RETRY_DELAY)
                        ELSE Min(RETRY_DELAY_BASE * 2^(l.consecutive_errors + 1),
                                 MAX_RETRY_DELAY)]

TooManyErrorsStrict(n) == n > MAX_CONSECUTIVE_ERRORS

\* if consecutive_errors >= MAX_CONSECUTIVE_ERRORS
TooManyErrors(n) == n >= MAX_CONSECUTIVE_ERRORS

\* the body of `while self.running` / `while True` for a pass that ends in o
LoopBody(l, o) ==
    IF o = "ok"
    THEN [l EXCEPT !.consecutive_errors = 0]
    ELSE IF o = "interrupt"
         THEN [l EXCEPT !.running = FALSE, !.shutdown = TRUE]
         ELSE IF l.entry = "main"
              THEN MainHandleError(l, o)
              ELSE IF o = "database"
                   THEN _handle_error(l, DB_RETRY_DELAY)
                   ELSE _handle_error(l, MAX_RETRY_DELAY)

\* one pass of the loop with the check that ends it; failed_in_a_row is
\* history: the failed passes since the last one that ended normally
_main_loop(l, o) ==
    LET body == LoopBody(l, o)
        checked == IF TooManyErrors(body.consecutive_errors)
                   THEN [body EXCEPT !.running = FALSE]
                   ELSE body
    IN  [checked EXCEPT !.cycles = @ + 1,
                        !.failed_in_a_row = IF o = "ok" THEN 0
                                            ELSE IF o = "interrupt" THEN @
                                            ELSE @ + 1]

\* bot.py's handler of SIGTERM and SIGINT
signal_handler(l) == [l EXCEPT !.running = FALSE, !.shutdown = TRUE]

(* -------------------------- SpecLoop actions -------------------------- *)
InitLoop ==
    /\ InitCommon
    /\ cycle = NoCycle
    /\ posting = NoPosting
    /\ engine = "legacy"
    /\ poster = "bot"
    /\ webhook2 = FALSE
    /\ retry = NoRetry
    /\ \E entry \in {"bot", "main"} : loop = StartLoop(entry)

\* the loop condition holds and one pass runs
RunCycle ==
    /\ loop.running
    /\ loop.cycles < MaxCycles
    /\ \E o \in CycleOutcomes : loop' = _main_loop(loop, o)
    /\ UNCHANGED <<posting, cycle, now, trades, ingested, fills, trade_state, lots, lot_matches,
                   unmatched_sells, engine, poster, webhook2, queue, delivered,
                   last, retry>>

\* a termination signal reaches the process while the loop runs
Signal ==
    /\ loop.entry = "bot"
    /\ loop.running
    /\ loop' = signal_handler(loop)
    /\ UNCHANGED <<posting, cycle, now, trades, ingested, fills, trade_state, lots, lot_matches,
                   unmatched_sells, engine, poster, webhook2, queue, delivered,
                   last, retry>>

NextLoop == RunCycle \/ Signal

SpecLoop == InitLoop /\ [][NextLoop]_vars

(* ------------------- one iteration and its external calls ------------- *)
\* how an external call of the iteration ends: it returns, or it fails for
\* good (retries exhausted where the call is wrapped)
CallResults == {"ok", "failed"}

\* _run_iteration (bot.py) / the try block of main_loop (main.py): the
\* exception class that reaches the loop's except clauses.  A failed fetch
\* raises SchwabConnectionError (a SchwabError) from SchwabService.get_orders
\* and SchwabApiError (a plain Exception) from SchwabApi.get_orders; a failed
\* send is caught and logged inside the loop over the unposted ids
_run_iteration(entry, fetch, send) ==
    IF fetch = "failed"
    THEN (IF entry = "bot" THEN "service" ELSE "unexpected")
    ELSE "ok"

\* one pass of the poll loop whose fetch and sends end as chosen
RunIteration ==
    /\ loop.running
    /\ loop.cycles < MaxCycles
    /\ \E fetch \in CallResults, send \in CallResults :
           /\ loop' = _main_loop(loop, _run_iteration(loop.entry, fetch, send))
           /\ last' = [op |-> "iteration", fetch |-> fetch,
                       send |-> IF fetch = "ok" THEN send ELSE "not reached"]
    /\ UNCHANGED <<posting, cycle, now, trades, ingested, fills, trade_state, lots, lot_matches,
                   unmatched_sells, engine, poster, webhook2, queue, delivered, retry>>

NextIteration == RunIteration \/ Signal

SpecIteration == InitLoop /\ [][NextIteration]_vars

(* --------------------------- SchwabBot.run ---------------------------- *)
\* how the _init_* calls of run end: normally, with the ConfigError of
\* _init_settings, or with another exception
InitOutcomes == {"ok", "ConfigError", "Exception"}

\* SchwabBot() before run: running = False
NewBot == [StartLoop("bot") EXCEPT !.pc = "new", !.running = FALSE]

\* run up to the call of _main_loop: `return 1` in both except clauses
run_init(l, o) ==
    IF o = "ok"
    THEN [l EXCEPT !.pc = "loop", !.running = TRUE]
    ELSE [l EXCEPT !.pc = "exited", !.init = o, !.exit_code = 1]

\* _main_loop has returned: `return 0`
run_return(l) == [l EXCEPT !.pc = "exited", !.exit_code = 0]

InitRun ==
    /\ InitCommon
    /\ cycle = NoCycle
    /\ posting = NoPosting
    /\ engine = "legacy"
    /\ poster = "bot"
    /\ webhook2 = FALSE
    /\ retry = NoRetry
    /\ loop = NewBot

RunInit ==
    /\ loop.pc = "new"
    /\ \E o \in InitOutcomes : loop' = run_init(loop, o)
    /\ UNCHANGED <<posting, cycle, now, trades, ingested, fills, trade_state, lots, lot_matches,
                   unmatched_sells, engine, poster, webhook2, queue, delivered,
                   last, retry>>

RunReturn ==
    /\ loop.pc = "loop"
    /\ ~loop.running
    /\ loop' = run_return(loop)
    /\ UNCHANGED <<posting, cycle, now, trades, ingested, fills, trade_state, lots, lot_matches,
                   unmatched_sells, engine, poster, webhook2, queue, delivered,
                   last, retry>>

NextRun == RunInit \/ RunCycle \/ Signal \/ RunReturn

SpecRun == InitRun /\ [][NextRun]_vars

(* --------------------- one notification send -------------------------- *)
\* resp.json().get("retry_after", 5)
DEFAULT_RETRY_AFTER == 5

\* what one requests.post(webhook_url, json=payload, timeout=timeout) can do:
\* raise one of requests' exceptions, or ("None") answer with a status code
PostExceptions == {"None", "ConnectionError", "Timeout"}

StatusCodes == {204, 400, 429, 500}

\* a body that resp.json() cannot decode
NOT_JSON == 0 - 3

\* the body of a 429 answer: a JSON object with a retry_after of so many
\* seconds, a JSON object without one (NULL), or text that is not JSON
RetryBodies == (1..MaxRetryAfter) \cup {NULL, NOT_JSON}

\* resp.json().get("retry_after", 5)
retry_after(body) == IF body = NULL THEN DEFAULT_RETRY_AFTER ELSE body

\* if resp.status_code < 200 or resp.status_code >= 300
Non2xx(status_code) == status_code < 200 \/ status_code >= 300

\* post_embed(webhook_url, embed, ...) up to its first requests.post; an
\* empty webhook_url returns {"skipped": True} without posting
StartSend(webhook_url) ==
    [pc |-> IF webhook_url = "" THEN "returned" ELSE "posting",
     webhook_url |-> webhook_url, skipped |-> webhook_url = "",
     posts |-> 0, slept |-> <<>>, status_code |-> NULL, error |-> "None"]

\* one requests.post of post_embed, raising exc or answered by status_code
\* (with body, when the answer is a 429), and the code that follows it up to
\* the next requests.post or the end of the function
post_embed(s, exc, status_code, body) ==
    LET posted == [s EXCEPT !.posts = @ + 1]
        answered == [posted EXCEPT !.status_code = status_code]
    IN  IF exc # "None"
        THEN [posted EXCEPT !.pc = "raised", !.error = exc]
        ELSE IF status_code = 429
             THEN IF body = NOT_JSON
                  THEN [answered EXCEPT !.pc = "raised", !.error = "JSONDecodeError"]
                  ELSE [answered EXCEPT !.slept = Append(@, retry_after(body))]
             ELSE IF Non2xx(status_code)
                  THEN [answered EXCEPT !.pc = "raised", !.error = "DiscordWebhookError"]
                  ELSE [answered EXCEPT !.pc = "returned"]

(* -------------------------- SpecSend actions -------------------------- *)
InitSend ==
    /\ InitCommon
    /\ cycle = NoCycle
    /\ engine = "domain"
    /\ poster = "bot"
    /\ webhook2 = FALSE
    /\ loop = NoLoop
    /\ retry = NoRetry
    /\ \E webhook_url \in {"", "https://discord.com/api/webhooks/1"} :
           posting = StartSend(webhook_url)

\* the webhook answers the pending requests.post
SendAttempt ==
    /\ posting.pc = "posting"
    /\ posting.posts < MaxPosts
    /\ \E exc \in PostExceptions, status_code \in StatusCodes, body \in RetryBodies :
           posting' = post_embed(posting, exc, status_code, body)
    /\ UNCHANGED <<cycle, now, trades, ingested, fills, trade_state, lots, lot_matches,
                   unmatched_sells, engine, poster, webhook2, queue, delivered,
                   last, loop, retry>>

NextSend == SendAttempt

SpecSend == InitSend /\ [][NextSend]_vars

(* -------------------- gain amount and classification ------------------ *)
\* multiplier = 100 if asset_type == "OPTION" else 1
ContractMultiplier(asset_type) == IF asset_type = "OPTION" THEN 100 ELSE 1

AssetTypes == {"OPTION", "EQUITY"}

\* x < y on rationals
RLess(x, y) == x[1] * y[2] < y[1] * x[2]

\* TradeThresholds.BREAKEVEN_MIN, BREAKEVEN_MAX
BREAKEVEN_MIN == 0 - 10

BREAKEVEN_MAX == 10

classify_trade_inclusive(gain_pct) ==
    IF gain_pct = NoResult THEN "UNKNOWN"
    ELSE IF ~RLess(gain_pct, RInt(BREAKEVEN_MAX)) THEN "WIN"
    ELSE IF ~RLess(RInt(BREAKEVEN_MIN), gain_pct) THEN "LOSS"
    ELSE "BREAKEVEN"

\* TradeThresholds.classify_trade; a missing gain (None) is NoResult
classify_trade(gain_pct) ==
    IF gain_pct = NoResult THEN "UNKNOWN"
    ELSE IF RLess(RInt(BREAKEVEN_MAX), gain_pct) THEN "WIN"
    ELSE IF RLess(gain_pct, RInt(BREAKEVEN_MIN)) THEN "LOSS"
    ELSE "BREAKEVEN"

\* the gains tried: whole percents and tenths of a percent around the
\* thresholds, and the missing gain
GainPcts ==
    {Rat(n, d) : n \in (0 - MaxGainNum)..MaxGainNum, d \in {1, 10}} \cup {NoResult}

\* the closes tried: a matched quantity of an instrument at a close price
\* against a lot's average cost
GainInputs ==
    [asset_type : AssetTypes, quantity : 1..MaxCalcQty,
     sell_price : 0..MaxCalcPrice, lot_cost : 0..MaxCalcPrice]

(* -------------------------- SpecCalc actions -------------------------- *)
InitCalc ==
    /\ InitCommon
    /\ cycle = NoCycle
    /\ posting = NoPosting
    /\ engine = "domain"
    /\ poster = "bot"
    /\ webhook2 = FALSE
    /\ retry = NoRetry
    /\ loop = NoLoop

\* one pass of the matching loop computes the gain amount of a match
ComputeGainAmount ==
    /\ \E in \in GainInputs :
           last' = [op |-> "gain_amount", asset_type |-> in.asset_type,
                    quantity |-> in.quantity, sell_price |-> in.sell_price,
                    lot_cost |-> in.lot_cost,
                    gain_amount |-> GainAmount(in.quantity, in.sell_price, in.lot_cost)]
    /\ UNCHANGED <<posting, cycle, now, trades, ingested, fills, trade_state, lots, lot_matches,
                   unmatched_sells, engine, poster, webhook2, queue, delivered,
                   retry, loop>>

ClassifyTrade ==
    /\ \E gain_pct \in GainPcts :
           last' = [op |-> "classify_trade", gain_pct |-> gain_pct,
                    class |-> classify_trade(gain_pct)]
    /\ UNCHANGED <<posting, cycle, now, trades, ingested, fills, trade_state, lots, lot_matches,
                   unmatched_sells, engine, poster, webhook2, queue, delivered,
                   retry, loop>>

NextCalc == ComputeGainAmount \/ ClassifyTrade

SpecCalc == InitCalc /\ [][NextCalc]_vars

(* --------------------- loading half of a poll cycle ------------------- *)
\* the tables one connection writes
Tables(f, ts, l, m, u) ==
    [fills |-> f, trade_state |-> ts, lots |-> l, lot_matches |-> m,
     unmatched_sells |-> u]

\* how the pass for one raw order goes: normally; the payload is malformed
\* and load_trade raises before anything is written; or reduce_lot_quantity
\* raises the first time it is called
Fails == {"none", "malformed", "reduce_lot_quantity"}

CycleTrades ==
    {t \in PricedTrades :
        /\ t.order_id <= MaxCycleOrders
        /\ t.symbol = <<"AAPL", "C150">>
        /\ t.filled_quantity >= 1
        /\ t.filled_quantity <= MaxQty}

RawOrders ==
    {o \in [trade : CycleTrades, fail : Fails] :
        o.fail = "reduce_lot_quantity" => ContainsSELL(o.trade.instruction)}

\* what get_orders returns: each order at most once
Batches ==
    {b \in UNION {[1..n -> RawOrders] : n \in 1..MaxBatchLen} :
        \A i, j \in DOMAIN b : b[i].trade.order_id = b[j].trade.order_id => i = j}

CaughtInLoopNever(fail) == FALSE

\* except Exception as e: logger.error(...) inside the for loop
CaughtInLoop(fail) == fail # "none"

\* process_sell_order gets as far as its matching loop
ReachesLoop(eng, db, open_lots, trade) ==
    /\ ~AlreadyMatched(db.lot_matches, trade.order_id)
    /\ eng = "domain" => ~check_sell_unmatched(db.unmatched_sells, trade.order_id)
    /\ open_lots # <<>>

\* conn.commit() runs inside the pass: create_cost_basis_lot after its
\* INSERT, record_unmatched_sell, process_sell_order after its loop
CommitsInside(eng, db, open_lots, trade) ==
    IF ContainsBUY(trade.instruction)
    THEN ~check_buy_already_recorded(db.lots, trade.order_id)
    ELSE \/ ReachesLoop(eng, db, open_lots, trade)
         \/ /\ eng = "domain"
            /\ ~AlreadyMatched(db.lot_matches, trade.order_id)
            /\ ~check_sell_unmatched(db.unmatched_sells, trade.order_id)
            /\ open_lots = <<>>

\* the tables when reduce_lot_quantity raises in the first pass of the
\* matching loop: the Match row is inserted, the lot is not reduced
SellInterrupted(db, open_lots, trade) ==
    LET lot_id == open_lots[1]
        lot_cost == db.lots[lot_id].avg_cost
        qty_from_lot == QtyFromLot(trade.filled_quantity, db.lots[lot_id].remaining_qty)
    IN  record_lot_match(db.lot_matches, trade.order_id, lot_id, qty_from_lot,
                         lot_cost, trade.price, GainPct(trade.price, lot_cost),
                         GainAmount(qty_from_lot, trade.price, lot_cost))

\* one pass of `for order in raw_orders`: the tables after it, whether a
\* commit ran in it, whether it ended in the except clause
LoadPass(eng, db, order, open_lots, t) ==
    LET trade == order.trade
        stored == Tables(store_trade(db.fills, trade),
                         ensure_trade_state(db.trade_state, trade.order_id, t),
                         db.lots, db.lot_matches, db.unmatched_sells)
        sold == process_sell_order(eng, db.lots, db.lot_matches, db.unmatched_sells,
                                   open_lots, trade.order_id, trade.symbol,
                                   trade.filled_quantity, trade.price)
    IN  IF order.fail = "malformed"
        THEN [db |-> db, committed |-> FALSE, raised |-> TRUE]
        ELSE IF ContainsBUY(trade.instruction)
        THEN [db |-> [stored EXCEPT !.lots =
                         process_buy_order(db.lots, trade.order_id, trade.symbol,
                                           trade.filled_quantity, trade.price,
                                           trade.entered_time)],
              committed |-> CommitsInside(eng, db, open_lots, trade),
              raised |-> FALSE]
        ELSE IF order.fail = "reduce_lot_quantity" /\ ReachesLoop(eng, db, open_lots, trade)
        THEN [db |-> [stored EXCEPT !.lot_matches = SellInterrupted(db, open_lots, trade)],
              committed |-> FALSE, raised |-> TRUE]
        ELSE [db |-> [stored EXCEPT !.lots = sold.lots, !.lot_matches = sold.matches,
                                    !.unmatched_sells = sold.unmatched],
              committed |-> CommitsInside(eng, db, open_lots, trade),
              raised |-> FALSE]

\* the process between two cycles, nothing uncommitted
IdleCycle(db) ==
    [pc |-> "idle", batch |-> <<>>, pos |-> 1, processed |-> 0, cycles |-> 0,
     start |-> db, durable |-> db, prev |-> <<>>]

(* -------------------------- SpecCycle actions ------------------------- *)
InitCycle ==
    /\ InitCommon
    /\ retry = NoRetry
    /\ loop = NoLoop
    /\ engine \in {"domain", "legacy"}
    /\ poster = IF engine = "legacy" THEN "bot" ELSE "poster"
    /\ webhook2 = FALSE
    /\ cycle = IdleCycle(Tables(fills, trade_state, lots, lot_matches, unmatched_sells))
    /\ posting = NoPosting

\* raw_orders = get_orders(); _load_trade_orders(raw_orders) is entered
StartCycle ==
    /\ cycle.pc = "idle"
    /\ cycle.cycles < MaxBatches
    /\ \E batch \in Batches :
           /\ \A i \in DOMAIN batch : SameOrder(batch[i].trade)
           /\ cycle' = [cycle EXCEPT !.pc = "loading", !.batch = batch, !.pos = 1,
                                     !.processed = 0,
                                     !.start = Tables(fills, trade_state, lots,
                                                      lot_matches, unmatched_sells)]
    /\ last' = [op |-> "start"]
    /\ UNCHANGED <<posting, now, trades, ingested, fills, trade_state, lots, lot_matches,
                   unmatched_sells, engine, poster, webhook2, queue, delivered,
                   retry, loop>>

\* one pass of the for loop
ProcessOrder ==
    /\ cycle.pc = "loading"
    /\ cycle.pos <= Len(cycle.batch)
    /\ LET order == cycle.batch[cycle.pos]
           db == Tables(fills, trade_state, lots, lot_matches, unmatched_sells)
       IN  \E open_lots \in OpenLotsFor(engine, lots, order.trade.symbol) :
               LET r == LoadPass(engine, db, order, open_lots, now)
               IN  /\ fills' = r.db.fills
                   /\ trade_state' = r.db.trade_state
                   /\ lots' = r.db.lots
                   /\ lot_matches' = r.db.lot_matches
                   /\ unmatched_sells' = r.db.unmatched_sells
                   /\ cycle' = [cycle EXCEPT
                          !.pc = IF r.raised /\ ~CaughtInLoop(order.fail)
                                 THEN "aborted" ELSE "loading",
                          !.pos = @ + 1,
                          !.processed = IF r.raised THEN @ ELSE @ + 1,
                          !.durable = IF r.committed THEN r.db ELSE @]
                   /\ last' = [op |-> "order", order_id |-> order.trade.order_id,
                               raised |-> r.raised]
    /\ UNCHANGED <<posting, now, trades, ingested, engine, poster, webhook2, queue,
                   delivered, retry, loop>>

\* self.conn.commit() after the loop; return processed
EndLoad ==
    /\ cycle.pc = "loading"
    /\ cycle.pos > Len(cycle.batch)
    /\ cycle' = [cycle EXCEPT !.pc = "idle", !.cycles = @ + 1,
                              !.durable = Tables(fills, trade_state, lots,
                                                 lot_matches, unmatched_sells),
                              !.prev = cycle.batch]
    /\ last' = [op |-> "commit", rerun |-> cycle.batch = cycle.prev]
    /\ UNCHANGED <<posting, now, trades, ingested, fills, trade_state, lots, lot_matches,
                   unmatched_sells, engine, poster, webhook2, queue, delivered,
                   retry, loop>>

\* the process dies inside the loop and is started again: the new
\* connection sees what was committed
Crash ==
    /\ cycle.pc = "loading"
    /\ fills' = cycle.durable.fills
    /\ trade_state' = cycle.durable.trade_state
    /\ lots' = cycle.durable.lots
    /\ lot_matches' = cycle.durable.lot_matches
    /\ unmatched_sells' = cycle.durable.unmatched_sells
    /\ cycle' = [cycle EXCEPT !.pc = "idle", !.cycles = @ + 1, !.prev = <<>>]
    /\ last' = [op |-> "crash"]
    /\ UNCHANGED <<posting, now, trades, ingested, engine, poster, webhook2, queue,
                   delivered, retry, loop>>

NextCycle == StartCycle \/ ProcessOrder \/ EndLoad \/ Crash

SpecCycle == InitCycle /\ [][NextCycle]_vars

(* ---------------------------------------------------------------------- *)
(* C1: ingesting the same fill payload any number of times leaves exactly *)
(* one trades row for its stable identity; the number of rows equals the  *)
(* number of distinct stable identities ingested so far.                  *)
(* ---------------------------------------------------------------------- *)
C1_IdempotentIngestion ==
    /\ Len(trades) = Cardinality(ingested)
    /\ \A id \in ingested :
           Cardinality({i \in DOMAIN trades : trades[i].trade_id = id}) = 1

\* a payload was ingested again (ignored) while two identities are stored
C1_Witness ==
    /\ last.op = "store_trade_fill"
    /\ ~last.inserted
    /\ Len(trades) = 2

(* ---------------------------------------------------------------------- *)
(* C4: after the first mark_posted of a fill, a later mark_posted for the *)
(* same fill leaves that fill's posted_at unchanged.                      *)
(* ---------------------------------------------------------------------- *)
C4_PostedAtNeverOverwritten ==
    [][\A i \in DOMAIN trades :
           trades[i].posted = 1 => trades'[i].posted_at = trades[i].posted_at]_vars

(* ---------------------------------------------------------------------- *)
(* C2: for every lot, in every reachable state, 0 <= remaining_qty <=     *)
(* opened quantity, and no Match takes more than its lot ever held.       *)
(* ---------------------------------------------------------------------- *)
C2_RemainingWithinOpened ==
    /\ \A i \in DOMAIN lots :
           /\ 0 <= lots[i].remaining_qty
           /\ lots[i].remaining_qty <= lots[i].quantity
    /\ \A k \in DOMAIN lot_matches :
           /\ lot_matches[k].lot_id \in DOMAIN lots
           /\ lot_matches[k].quantity <= lots[lot_matches[k].lot_id].quantity

\* a lot that a close consumed in part
C2_Witness ==
    \E i \in DOMAIN lots :
        /\ 0 < lots[i].remaining_qty
        /\ lots[i].remaining_qty < lots[i].quantity
        /\ \E k \in DOMAIN lot_matches : lot_matches[k].lot_id = i

(* ---------------------------------------------------------------------- *)
(* C3: a call of process_sell_order for a closing order id that already   *)
(* has Match rows creates no Match row and changes no lot, whatever lots  *)
(* were opened in between.                                                *)
(* ---------------------------------------------------------------------- *)
C3_AtMostOnceMatching ==
    [][(/\ last'.op = "sell"
        /\ check_sell_already_matched(lot_matches, last'.order_id))
       => (lot_matches' = lot_matches /\ lots' = lots)]_vars

\* an already matched order is processed again while its engine's query
\* still answers with open lots
C3_Witness ==
    /\ last.op = "sell"
    /\ last.result.some
    /\ last.result.lots_matched = 0
    /\ last.open_lots # <<>>

(* ---------------------------------------------------------------------- *)
(* C6: when a closing fill that is neither matched nor recorded unmatched *)
(* is processed, the quantities of its Matches sum to the filled quantity *)
(* if the candidate lots hold at least that much, and otherwise to the    *)
(* candidates' total remaining quantity, which is less than the filled    *)
(* quantity.                                                              *)
(* ---------------------------------------------------------------------- *)
SumMatched(matchrows, order_id) ==
    SeqSum(MapSeq(MatchesOf(matchrows, order_id), LAMBDA m : m.quantity))

TotalRemaining(lotrows, ids) ==
    SeqSum(MapSeq(ids, LAMBDA i : lotrows[i].remaining_qty))

C6_Conservation ==
    [][(/\ last'.op = "sell"
        /\ ~check_sell_already_matched(lot_matches, last'.order_id)
        /\ ~check_sell_unmatched(unmatched_sells, last'.order_id))
       => LET avail == TotalRemaining(lots, last'.open_lots)
              q == fills'[last'.order_id].filled_quantity
              matched == SumMatched(lot_matches', last'.order_id)
          IN  IF avail >= q
              THEN matched = q
              ELSE matched = avail /\ matched < q /\ q - matched >= 0]_vars

\* a close covered in part: its Matches sum to less than its filled quantity
C6_Witness ==
    /\ last.op = "sell"
    /\ last.result.some
    /\ last.result.lots_matched >= 1
    /\ SumMatched(lot_matches, last.order_id) < fills[last.order_id].filled_quantity

UnmatchedOf(unmatched, order_id) == {u \in unmatched : u.sell_order_id = order_id}

C8_NoLotRecordsUnmatched ==
    [][(/\ last'.op = "sell"
        /\ ~check_sell_already_matched(lot_matches, last'.order_id)
        /\ \A i \in DOMAIN lots :
               lots[i].symbol = fills'[last'.order_id].symbol => lots[i].remaining_qty = 0
        /\ \A i \in DOMAIN lots :
               lots[i].underlying = extract_underlying(fills'[last'.order_id].symbol)
                   => lots[i].remaining_qty = 0)
       => (/\ Cardinality(UnmatchedOf(unmatched_sells', last'.order_id)) = 1
           /\ lot_matches' = lot_matches)]_vars

(* ---------------------------------------------------------------------- *)
(* C9: a close consumes the open lots of its instrument in policy order:  *)
(* newest first (descending entered_time) in app.domain.cost_basis,       *)
(* oldest first in app.cost_basis.  The Match rows of one close are       *)
(* created in that order, and a lot is reduced only if every candidate    *)
(* lot before it in policy order is left with remaining quantity 0.       *)
(* ---------------------------------------------------------------------- *)
Candidates(eng, lotrows, symbol) ==
    {i \in DOMAIN lotrows :
        /\ lotrows[i].remaining_qty > 0
        /\ IF eng = "domain"
           THEN lotrows[i].symbol = symbol
           ELSE lotrows[i].underlying = extract_underlying(symbol)}

Precedes(eng, lotrows, a, b) ==
    IF eng = "domain"
    THEN lotrows[a].entered_time > lotrows[b].entered_time
    ELSE lotrows[a].entered_time < lotrows[b].entered_time

NewMatches == SubSeq(lot_matches', Len(lot_matches) + 1, Len(lot_matches'))

C9_PolicyOrder ==
    [][last'.op = "sell"
       => /\ \A i, j \in DOMAIN NewMatches :
                 i < j => ~Precedes(engine, lots, NewMatches[j].lot_id,
                                    NewMatches[i].lot_id)
          /\ \A a, b \in Candidates(engine, lots, fills'[last'.order_id].symbol) :
                 (/\ lots'[b].remaining_qty < lots[b].remaining_qty
                  /\ Precedes(engine, lots, a, b))
                 => lots'[a].remaining_qty = 0]_vars

\* newest first where the newer lot was stored first: the first of the two
\* Matches of a close is on the lot with the smaller lot id
C9_Witness ==
    /\ engine = "domain"
    /\ last.op = "sell"
    /\ last.result.some
    /\ last.result.lots_matched = 2
    /\ lot_matches[Len(lot_matches) - 1].lot_id < lot_matches[Len(lot_matches)].lot_id

(* ---------------------------------------------------------------------- *)
(* C10: the average gain percent returned for a close is the sum of       *)
(* gain_pct_i * qty_i over its Matches divided by the sum of qty_i; for   *)
(* 2 units at cost 1 and 3 units at cost 2 closed at 3 the gains are 200  *)
(* and 50 and the result is 110; with nothing matched the result is None. *)
(* ---------------------------------------------------------------------- *)
C10_WeightedAvg(ms) ==
    RDiv(RSeqSum(MapSeq(ms, LAMBDA m : RMul(m.gain_pct, RInt(m.quantity)))),
         RInt(SeqSum(MapSeq(ms, LAMBDA m : m.quantity))))

C10_ExampleLots ==
    <<[order_id |-> 1, symbol |-> <<"AAPL", "C150">>, underlying |-> <<"AAPL">>,
       quantity |-> 2, remaining_qty |-> 2, avg_cost |-> 1, entered_time |-> 2],
      [order_id |-> 3, symbol |-> <<"AAPL", "C150">>, underlying |-> <<"AAPL">>,
       quantity |-> 3, remaining_qty |-> 3, avg_cost |-> 2, entered_time |-> 1]>>

C10_Example ==
    MatchLoop(<<1, 2>>, 1, C10_ExampleLots, 2, 3, LoopStart(C10_ExampleLots, <<>>, 5))

C10_WeightedAverageGain ==
    /\ last.op = "sell" =>
           LET ms == MatchesOf(lot_matches, last.order_id)
           IN  IF SumMatched(lot_matches, last.order_id) > 0
               THEN /\ last.result.some
                    /\ last.result.avg_gain_pct = C10_WeightedAvg(ms)
                    /\ \A k \in DOMAIN ms :
                           ms[k].gain_pct =
                               IF ms[k].cost_basis > 0
                               THEN Rat((ms[k].sell_price - ms[k].cost_basis) * 100,
                                        ms[k].cost_basis)
                               ELSE RInt(0)
               ELSE last.result = None
    /\ C10_Example.matches[1].gain_pct = RInt(200)
    /\ C10_Example.matches[2].gain_pct = RInt(50)
    /\ LoopResult(C10_Example) = GainResult(RInt(110), 700, 2)

\* a close matched against two lots in unequal parts with unequal gains
C10_Witness ==
    /\ last.op = "sell"
    /\ last.result.some
    /\ last.result.lots_matched = 2
    /\ LET ms == MatchesOf(lot_matches, last.order_id)
       IN  /\ Len(ms) = 2
           /\ ms[1].quantity # ms[2].quantity
           /\ ms[1].gain_pct # ms[2].gain_pct

(* ---------------------------------------------------------------------- *)
(* C5: across any number of poll cycles and failed sends, each fill is    *)
(* delivered to a given webhook at most once.                             *)
(* ---------------------------------------------------------------------- *)
C5_AtMostOnceDelivery ==
    \A k \in DOMAIN delivered : delivered[k] <= 1

(* ---------------------------------------------------------------------- *)
(* C11: at most one lot exists per opening order id, and processing a BUY *)
(* order whose id already has a lot leaves every lot (opened quantity,    *)
(* remaining quantity, average cost) unchanged, whatever filled quantity  *)
(* or price the re-ingested payload carries.                              *)
(* ---------------------------------------------------------------------- *)
C11_OneLotPerBuyOrder ==
    [][/\ \A i, j \in DOMAIN lots' :
              lots'[i].order_id = lots'[j].order_id => i = j
       /\ (/\ last'.op = "buy"
           /\ check_buy_already_recorded(lots, last'.order_id))
          => lots' = lots]_vars

\* a BUY re-ingested with another filled quantity and another price than
\* its lot was opened with
C11_Witness ==
    /\ last.op = "buy"
    /\ ~last.created
    /\ \E i \in DOMAIN lots :
           /\ lots[i].order_id = last.order_id
           /\ lots[i].avg_cost # last.price
           /\ lots[i].quantity # fills[last.order_id].filled_quantity

(* ---------------------------------------------------------------------- *)
(* C12: once a fill's posted flag is true it stays true in every later    *)
(* state, under re-ingestions of the same fill and mark_posted calls; the *)
(* row keeps its identity.                                                *)
(* ---------------------------------------------------------------------- *)
C12_PostedStaysTrue ==
    [][\A i \in DOMAIN trades :
           trades[i].posted = 1 =>
               /\ i \in DOMAIN trades'
               /\ trades'[i].trade_id = trades[i].trade_id
               /\ trades'[i].posted = 1]_vars

\* a posted fill was ingested again
C12_Witness ==
    /\ last.op = "store_trade_fill"
    /\ ~last.inserted
    /\ \E i \in DOMAIN trades :
           trades[i].trade_id = last.trade_id /\ trades[i].posted = 1

(* ---------------------------------------------------------------------- *)
(* C13: the unposted query returns exactly the fills with posted = 0,     *)
(* each once and none that is posted, in ascending order of the time the  *)
(* row was last written (stated here of fetch_unposted_fills).            *)
(* ---------------------------------------------------------------------- *)
C13_UnpostedQuery ==
    \A r \in fetch_unposted_fills(trades, DefaultLimit) :
        /\ {r[k] : k \in DOMAIN r} = {i \in DOMAIN trades : trades[i].posted = 0}
        /\ \A j, k \in DOMAIN r : j # k => r[j] # r[k]
        /\ \A j, k \in DOMAIN r :
               j < k => trades[r[j]].ingested_at <= trades[r[k]].ingested_at

(* ---------------------------------------------------------------------- *)
(* C14: mark_posted signals an integrity error whenever the number of     *)
(* rows it affects is not exactly one.                                    *)
(* ---------------------------------------------------------------------- *)
C14_MarkPostedIntegrity ==
    (last.op = "mark_posted" /\ last.affected # 1) => last.raised

(* ---------------------------------------------------------------------- *)
(* C16: after an already stored fill is re-ingested with a changed        *)
(* status, its row keeps its identity and carries the newly observed      *)
(* status.                                                                *)
(* ---------------------------------------------------------------------- *)
C16_MutableFieldsRefreshed ==
    last.op = "store_trade_fill" =>
        /\ Cardinality({i \in DOMAIN trades : trades[i].trade_id = last.trade_id}) = 1
        /\ \A i \in DOMAIN trades :
               trades[i].trade_id = last.trade_id => trades[i].status = last.status

AllOutcomes(r, kinds) == \A k \in DOMAIN r.outcomes : r.outcomes[k] \in kinds

(* ---------------------------------------------------------------------- *)
(* C17: when every attempt fails with a transient error the wrapper has   *)
(* invoked the call exactly max_retries + 1 times when it ends (4 times   *)
(* with the default 3), it never invokes it more often than that, and it  *)
(* ends by raising one SchwabApiError that carries the last cause.        *)
(* ---------------------------------------------------------------------- *)
C17_ExhaustedRetries ==
    /\ retry.calls <= retry.max_retries + 1
    /\ (retry.pc # "loop" /\ AllOutcomes(retry, {"ConnectionError", "Timeout"})) =>
           /\ retry.pc = "raised"
           /\ retry.calls = retry.max_retries + 1
           /\ retry.max_retries = MAX_RETRIES => retry.calls = 4
           /\ retry.error = SchwabApiError(retry.max_retries,
                                           retry.outcomes[Len(retry.outcomes)])
    /\ retry.pc = "raised" => retry.calls = retry.max_retries + 1

\* the default number of retries was used up by network failures
C17_Witness ==
    /\ retry.pc = "raised"
    /\ retry.max_retries = MAX_RETRIES
    /\ retry.calls = 4
    /\ AllOutcomes(retry, {"ConnectionError", "Timeout"})
    /\ retry.error.cause = "Timeout"

(* ---------------------------------------------------------------------- *)
(* C18: k transient failures (0 <= k <= max_retries) followed by a        *)
(* success make the wrapper invoke the call exactly k + 1 times and       *)
(* return the value of the successful invocation; a transient failure     *)
(* never ends the run while attempts are left, and nothing is invoked     *)
(* after the success.                                                     *)
(* ---------------------------------------------------------------------- *)
C18_SuccessAfterFailures ==
    [][/\ retry.pc = "returned" => retry' = retry
       /\ (/\ retry'.outcomes # <<>>
           /\ retry'.outcomes[Len(retry'.outcomes)] = "ok") =>
              /\ retry'.pc = "returned"
              /\ retry'.failures = Len(retry'.outcomes) - 1
              /\ retry'.failures <= retry'.max_retries
              /\ retry'.calls = retry'.failures + 1
              /\ retry'.result = retry'.calls
       /\ (/\ AllOutcomes(retry', {"ConnectionError", "Timeout"})
           /\ Len(retry'.outcomes) <= retry'.max_retries) =>
              retry'.pc = "loop"]_vars

\* two network failures, then the third invocation succeeded
C18_Witness ==
    /\ retry.pc = "returned"
    /\ retry.outcomes = <<"ConnectionError", "ConnectionError", "ok">>
    /\ retry.calls = 3
    /\ retry.result = 3

(* ---------------------------------------------------------------------- *)
(* C19: a fatal failure of the wrapped call (an HTTP error status raised  *)
(* by the response) is not retried: the call has been invoked exactly     *)
(* once, the failure has left the wrapper as it is, and no backoff sleep  *)
(* was taken.                                                             *)
(* ---------------------------------------------------------------------- *)
C19_FatalNotRetried ==
    (retry.pc # "none" /\ \E k \in DOMAIN retry.outcomes : retry.outcomes[k] = "HTTPError") =>
        /\ retry.calls = 1
        /\ retry.pc = "propagated"
        /\ retry.error = Propagated("HTTPError")
        /\ retry.slept = <<>>

(* ---------------------------------------------------------------------- *)
(* C20: without a shutdown signal the poll loop has stopped exactly when  *)
(* 10 cycles in a row have failed; the consecutive-failure count is the   *)
(* number of failed cycles since the last successful one, a successful    *)
(* cycle sets it to 0, it stays within 0..10, and no cycle starts once it *)
(* is 10.                                                                 *)
(* ---------------------------------------------------------------------- *)
C20_StopsAfterTenFailures ==
    [][/\ loop'.consecutive_errors \in 0..10
       /\ loop'.consecutive_errors = loop'.failed_in_a_row
       /\ ~loop'.shutdown => (~loop'.running <=> loop'.failed_in_a_row = 10)
       /\ loop'.cycles # loop.cycles =>
              /\ loop.running
              /\ loop.consecutive_errors < 10
              /\ loop'.consecutive_errors \in {0, loop.consecutive_errors,
                                               loop.consecutive_errors + 1}
              /\ loop'.failed_in_a_row = 0 => loop'.consecutive_errors = 0]_vars

\* ten failures in a row ended the loop after an earlier cycle had succeeded
C20_Witness ==
    /\ loop.pc = "loop"
    /\ ~loop.running
    /\ ~loop.shutdown
    /\ loop.consecutive_errors = 10
    /\ loop.cycles > 10

(* ---------------------------------------------------------------------- *)
(* C21: the exit code of SchwabBot.run is non-zero when the loop stopped  *)
(* on the consecutive-failure threshold or when loading the configuration *)
(* failed, and zero when a shutdown signal stopped the loop.              *)
(* ---------------------------------------------------------------------- *)
C21_ExitCode ==
    loop.pc = "exited" =>
        /\ loop.init = "ConfigError" => loop.exit_code # 0
        /\ (~loop.shutdown /\ TooManyErrors(loop.consecutive_errors)) =>
               loop.exit_code # 0
        /\ (loop.shutdown /\ ~TooManyErrors(loop.consecutive_errors)) =>
               loop.exit_code = 0

(* ---------------------------------------------------------------------- *)
(* C25: the gain amount recorded for a match is matched quantity times    *)
(* (close price - lot average cost) times the contract multiplier, 100    *)
(* for an option and 1 for every other instrument type.                   *)
(* ---------------------------------------------------------------------- *)
C25_GainAmountMultiplier ==
    last.op = "gain_amount" =>
        last.gain_amount =
            last.quantity * (last.sell_price - last.lot_cost)
                * ContractMultiplier(last.asset_type)

(* ---------------------------------------------------------------------- *)
(* C26: classify_trade is total: UNKNOWN for a missing gain, WIN exactly  *)
(* when the gain is above 10, LOSS exactly when it is below -10, and      *)
(* BREAKEVEN on the closed interval from -10 to 10.                       *)
(* ---------------------------------------------------------------------- *)
C26_ClassifyTrade ==
    last.op = "classify_trade" =>
        /\ last.class \in {"UNKNOWN", "WIN", "LOSS", "BREAKEVEN"}
        /\ last.class = "UNKNOWN" <=> last.gain_pct = NoResult
        /\ last.gain_pct # NoResult =>
               /\ last.class = "WIN" <=> RLess(<<10, 1>>, last.gain_pct)
               /\ last.class = "LOSS" <=> RLess(last.gain_pct, <<0 - 10, 1>>)
               /\ last.class = "BREAKEVEN" <=>
                      (~RLess(last.gain_pct, <<0 - 10, 1>>)
                       /\ ~RLess(<<10, 1>>, last.gain_pct))

\* a gain of exactly 10 percent was classified
C26_Witness ==
    /\ last.op = "classify_trade"
    /\ last.gain_pct = <<10, 1>>
    /\ last.class = "BREAKEVEN"

\* the deliveries of trade_id the notification collaborator has confirmed
Confirmed(d, trade_id) ==
    {k \in DOMAIN d : k[1] = trade_id /\ d[k] >= 1}

C23_CycleIsOneTransaction ==
    /\ cycle.pc = "loading" => cycle.durable = cycle.start
    /\ last.op = "crash" =>
           Tables(fills, trade_state, lots, lot_matches, unmatched_sells) = cycle.start

\* the quantity the Match rows take from lot lot_id
MatchedFromLot(matchrows, lot_id) ==
    SeqSum(MapSeq(SelectSeq(matchrows, LAMBDA m : m.lot_id = lot_id),
                  LAMBDA m : m.quantity))

(* ---------------------------------------------------------------------- *)
(* C24: in every committed state, for every lot, opened quantity minus    *)
(* remaining quantity equals the sum of the quantities of the Match rows  *)
(* that reference the lot.                                                *)
(* ---------------------------------------------------------------------- *)
C24_MatchesAccountForReductions ==
    cycle.pc \in {"idle", "loading"} =>
        \A i \in DOMAIN cycle.durable.lots :
            cycle.durable.lots[i].quantity - cycle.durable.lots[i].remaining_qty
                = MatchedFromLot(cycle.durable.lot_matches, i)

\* the batch holds no order whose pass fails
FailureFree(batch) == \A i \in DOMAIN batch : batch[i].fail = "none"

\* order id was not in the ledger, and no lot of its instrument was open,
\* when the cycle started
FreshIn(db, trade) ==
    /\ trade.order_id \notin DOMAIN db.fills
    /\ \A i \in DOMAIN db.lots :
           db.lots[i].underlying = extract_underlying(trade.symbol) =>
               db.lots[i].remaining_qty = 0

(* ---------------------------------------------------------------------- *)
(* C29: the fills of a batch are processed in the order returned: an      *)
(* opening fill that precedes a closing fill of the same instrument is    *)
(* matched by it in the same cycle; a closing fill that precedes the      *)
(* opening fill is recorded as unmatched and the lot created afterwards   *)
(* keeps its full opened quantity.                                        *)
(* ---------------------------------------------------------------------- *)
C29_BatchOrderRespected ==
    (last.op = "commit" /\ FailureFree(cycle.batch)) =>
        \A i, j \in DOMAIN cycle.batch :
            LET a == cycle.batch[i].trade
                b == cycle.batch[j].trade
            IN  (/\ i < j
                 /\ a.symbol = b.symbol
                 /\ FreshIn(cycle.start, a)
                 /\ FreshIn(cycle.start, b)) =>
                    /\ (ContainsBUY(a.instruction) /\ ContainsSELL(b.instruction)) =>
                           \E k \in DOMAIN lot_matches :
                               /\ lot_matches[k].sell_order_id = b.order_id
                               /\ lots[lot_matches[k].lot_id].order_id = a.order_id
                    /\ (ContainsSELL(a.instruction) /\ ContainsBUY(b.instruction)) =>
                           /\ check_sell_unmatched(unmatched_sells, a.order_id)
                           /\ ~check_sell_already_matched(lot_matches, a.order_id)
                           /\ \E n \in DOMAIN lots :
                                  /\ lots[n].order_id = b.order_id
                                  /\ lots[n].remaining_qty = lots[n].quantity

(* ---------------------------------------------------------------------- *)
(* C30: running a cycle again with the batch of the cycle that has just   *)
(* completed changes nothing in the ledger: fills, posting records, lots  *)
(* with their remaining quantities, Match rows and UnmatchedClose records *)
(* are the same before and after.                                         *)
(* ---------------------------------------------------------------------- *)
C30_RerunIsNoOp ==
    (last.op = "commit" /\ last.rerun /\ FailureFree(cycle.batch)) =>
        Tables(fills, trade_state, lots, lot_matches, unmatched_sells) = cycle.start

\* the three entry points that match a closing fill
EntryPoints == {"legacy", "domain", "rebuild"}

\* what entry point e makes of closing fill t in the present ledger: the
\* Match rows it adds, the lots it leaves and the average gain it returns,
\* for every answer its query may give
MatchingOutcomes(e, t) ==
    IF e = "rebuild"
    THEN {LET r == RebuildSell(lots, lot_matches, unmatched_sells, open_lots,
                               t.order_id, t.symbol, t.filled_quantity, t.price)
          IN  [matches |-> SubSeq(r.matches, Len(lot_matches) + 1, Len(r.matches)),
               lots |-> r.lots, avg |-> r.result] :
             open_lots \in get_open_lots_lifo(lots, t.symbol)}
    ELSE {LET r == process_sell_order(e, lots, lot_matches, unmatched_sells, open_lots,
                                      t.order_id, t.symbol, t.filled_quantity, t.price)
          IN  [matches |-> SubSeq(r.matches, Len(lot_matches) + 1, Len(r.matches)),
               lots |-> r.lots,
               avg |-> IF r.result.some THEN r.result.avg_gain_pct ELSE NoResult] :
             open_lots \in OpenLotsFor(e, lots, t.symbol)}

\* closing fills of orders the ledger has not seen yet
NewCloses ==
    {t \in LotTrades \cap PricedTrades :
        /\ ContainsSELL(t.instruction)
        /\ ~ContainsBUY(t.instruction)
        /\ t.order_id \notin DOMAIN fills}

(* ---------------------------------------------------------------------- *)
(* C31: every matching entry point uses the same lot selector and         *)
(* ordering policy: in the same ledger state the poll loop's engine, the  *)
(* domain engine and the rebuild script make the same Match rows, the     *)
(* same lot reductions and the same weighted average gain of the same     *)
(* closing fill.                                                          *)
(* ---------------------------------------------------------------------- *)
C31_OneMatchingPolicy ==
    \A t \in NewCloses :
        \A e1, e2 \in EntryPoints : MatchingOutcomes(e1, t) = MatchingOutcomes(e2, t)

C33_ExhaustedCallFailsCycle ==
    [][(/\ last'.op = "iteration"
        /\ loop'.cycles = loop.cycles + 1
        /\ last'.fetch = "failed" \/ last'.send = "failed")
       => /\ loop'.consecutive_errors = loop.consecutive_errors + 1
          /\ loop'.delay > 0]_vars

\* the passes of the loop body that end in an except clause with a backoff
FailedOutcomes == CycleOutcomes \ {"ok", "interrupt"}

\* the cap of the backoff for a pass that ended in o
CapOf(o) == IF o = "database" THEN DB_RETRY_DELAY ELSE MAX_RETRY_DELAY

(* ---------------------------------------------------------------------- *)
(* C34 as stated: the backoff delay after the n-th consecutive failure is *)
(* min(BASE_RETRY_DELAY * 2^n, cap), cap 60 for database errors and 300   *)
(* for the others, in both poll loops.                                    *)
(* ---------------------------------------------------------------------- *)
C34_DelayFormulaEverywhere ==
    (loop.pc = "loop" /\ loop.running) =>
        \A o \in FailedOutcomes :
            LoopBody(loop, o).delay
                = Min(BASE_RETRY_DELAY * 2^(loop.consecutive_errors + 1), CapOf(o))

(* ---------------------------------------------------------------------- *)
(* C34 amended: after the n-th consecutive failure SchwabBot sleeps       *)
(* min(5 * 2^n, cap); main_loop sleeps min(2 * 2^n, 300), and             *)
(* min(2 * n, 60) after a database error.  In both loops the delay never  *)
(* exceeds 300 seconds, never exceeds 60 seconds after a database error,  *)
(* and for one class of error is non-decreasing in n.                     *)
(* ---------------------------------------------------------------------- *)
C34_BackoffDelay ==
    (loop.pc = "loop" /\ loop.running) =>
        \A o \in FailedOutcomes :
            LET n == loop.consecutive_errors + 1
                d == LoopBody(loop, o).delay
                next == LoopBody([loop EXCEPT !.consecutive_errors = n], o).delay
            IN  /\ LoopBody(loop, o).consecutive_errors = n
                /\ d <= CapOf(o)
                /\ d <= next
                /\ d > 0
                /\ loop.entry = "bot" => d = Min(BASE_RETRY_DELAY * 2^n, CapOf(o))
                /\ (loop.entry = "main" /\ o # "database")
                       => d = Min(RETRY_DELAY_BASE * 2^n, MAX_RETRY_DELAY)
                /\ (loop.entry = "main" /\ o = "database")
                       => d = Min(RETRY_DELAY_BASE * n, DB_RETRY_DELAY)

\* the loop has slept a capped delay: 60 seconds after a seventh failure
\* in a row, where the uncapped value is 640
C34_Witness ==
    /\ loop.pc = "loop"
    /\ loop.entry = "bot"
    /\ loop.consecutive_errors = 7
    /\ loop.delay = DB_RETRY_DELAY

(* ---------------------------------------------------------------------- *)
(* C35: in the retry wrapper the sleep that follows failed attempt i      *)
(* (0-based) lasts base_delay * 2^i seconds (2, 4, 8 with the defaults);  *)
(* there is one sleep per failed attempt that is followed by a retry and  *)
(* none after the final failed attempt.                                   *)
(* ---------------------------------------------------------------------- *)
C35_RetrySleeps ==
    retry.pc # "none" =>
        /\ \A k \in DOMAIN retry.slept :
               retry.slept[k] = retry.base_delay * 2^(k - 1)
        /\ Len(retry.slept) = Min(retry.failures, retry.max_retries)
        /\ retry.pc = "loop" => Len(retry.slept) = retry.failures
        /\ retry.pc = "raised" =>
               /\ retry.failures = retry.max_retries + 1
               /\ Len(retry.slept) = retry.failures - 1
        /\ (/\ retry.pc = "raised"
            /\ retry.max_retries = MAX_RETRIES
            /\ retry.base_delay = RETRY_DELAY_BASE) => retry.slept = <<2, 4, 8>>

\* the defaults: four failed attempts, three sleeps
C35_Witness ==
    /\ retry.pc = "raised"
    /\ retry.max_retries = MAX_RETRIES
    /\ retry.base_delay = RETRY_DELAY_BASE
    /\ retry.failures = 4
    /\ retry.slept = <<2, 4, 8>>

(* ---------------------------------------------------------------------- *)
(* C36: a shutdown signal only sets the liveness flag: the iteration in   *)
(* progress runs to completion (the signal never ends a pass of the loop  *)
(* body), and once the flag is false no further iteration starts.         *)
(* ---------------------------------------------------------------------- *)
C36_ShutdownBetweenIterations ==
    [][/\ (loop'.shutdown /\ ~loop.shutdown) => loop'.cycles = loop.cycles
       /\ ~loop.running => loop'.cycles = loop.cycles]_vars

(* ------------------------------- C37 ---------------------------------- *)
\* C37: a single notification send makes a bounded number of HTTP attempts,
\* the retry wrapper's max_retries + 1, and then ends with a success or an
\* error, also when the webhook answers every attempt with 429.
C37_BoundedSend ==
    posting.pc # "none" => posting.posts <= Attempts(MAX_RETRIES)

(* ------------------------------- C38 ---------------------------------- *)
\* C38: create_lot called for an order id that already has a lot returns
\* the identity of that existing lot, not a different or a stale row id.
C38_CreateLotReturnsExisting ==
    (last.op = "create_lot" /\ last.existed) =>
        /\ last.lot_id \in DOMAIN lots
        /\ lots[last.lot_id].order_id = last.order_id

(* ------------------------------- C39 ---------------------------------- *)
\* C39: the average gain read back from the stored Match rows of a closing
\* order equals the weighted average gain that process_sell_order returned
\* when it first matched that order, in every later state: the step that
\* matches an order returns what its rows average to, no later step changes
\* what the rows of a matched order average to, and processing the order
\* again returns that same average.
C39_StoredAverageIsReturnedAverage ==
    [][/\ \A o \in OrderIds :
              check_sell_already_matched(lot_matches, o) =>
                  get_avg_gain_for_sell(lot_matches', o) =
                      get_avg_gain_for_sell(lot_matches, o)
       /\ (last'.op = "sell" /\ last'.result.some) =>
              last'.result.avg_gain_pct =
                  get_avg_gain_for_sell(lot_matches', last'.order_id)
       /\ (last'.op = "sell" /\ ~last'.result.some) =>
              get_avg_gain_for_sell(lot_matches', last'.order_id) = NoResult]_vars

\* a close that was matched against two lots in unequal parts with unequal
\* gains has just been processed again and answered from its stored rows
C39_Witness ==
    /\ last.op = "sell"
    /\ last.result.some
    /\ last.result.lots_matched = 0
    /\ LET ms == MatchesOf(lot_matches, last.order_id)
       IN  /\ Len(ms) = 2
           /\ ms[1].quantity # ms[2].quantity
           /\ ms[1].gain_pct # ms[2].gain_pct

====
